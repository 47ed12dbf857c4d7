-------------------------------- MODULE Chat --------------------------------
(***************************************************************************)
(* LLMClient.chat of src/llm_client_kit/transport.py: concurrent calls on  *)
(* one client, each a retry loop inside a Deadline, and aclose.            *)
(*                                                                         *)
(* A call is suspended in three places: in the httpx pool, waiting for a   *)
(* connection (pooled); on a connection, waiting for the network (net);    *)
(* and in the sleep before a retry (sleeping).  A step runs from one of    *)
(* them to the next, through every check of the loop that lies between.    *)
(*                                                                         *)
(* httpx is external: `timeout` limits the wait for a connection, the      *)
(* connect, and each write and read by itself, so a request is a row of    *)
(* timed operations.  How many they are is up to the server: an answer     *)
(* that comes in many small pieces takes a read, with a timer of its own,  *)
(* for each.  A request that takes more than NetPhases is said to trickle. *)
(* Nothing in the code keeps it from doing so, for as long as the server   *)
(* likes, and a property that needs it not to says so.                     *)
(*                                                                         *)
(* The operators defined right before another one with the same parameters *)
(* and used nowhere (NoCheck, NotClamped, KeptOpen, Uncounted; some in     *)
(* Retry too) are mutants: a plausible bug each, against which the         *)
(* properties are tried.                                                   *)
(***************************************************************************)
EXTENDS Retry, FiniteSets

CONSTANTS
  Calls,      \* the calls made on the client
  TimeoutS,   \* ClientConfig.timeout_s
  Deadlines,  \* budgets a call may be given; None is no deadline
  Ages,       \* how old a Deadline handed to chat may be
  PoolSize,   \* connections the pool may open
  OwnsClient, \* did LLMClient create its httpx client?
  NetPhases,  \* timed network operations of a request that does not trickle
  Tricklers,  \* calls whose requests the server may let trickle
  Statuses,   \* statuses the server may answer with
  Headers,    \* Retry-After headers it may send
  Exceptions, \* errors a request may break with, besides a timeout
  Lag,        \* most the event loop is late
  MaxBegin,   \* bound: no call begins later
  MaxNow      \* bound: the clock stops here

(* How a call may end                                                      *)
Outcomes ==
  {"Completion", "ResponseShapeError", "ParseError", "LedgerError", "last_error",
   "RetryBudgetExceeded", "CancelledError", "LLMError", "ValueError"}

ASSUME ClientAssumption ==
  /\ IsFiniteSet(Calls)
  /\ TimeoutS \in Nat \ {0}
  /\ Deadlines \subseteq Nat \cup {None}
  /\ Ages \subseteq Nat
  /\ PoolSize \in Nat \ {0}
  /\ OwnsClient \in BOOLEAN
  /\ NetPhases \in Nat \ {0}
  /\ Tricklers \subseteq Calls
  /\ Statuses \subseteq Nat
  /\ Exceptions \subseteq {"TransportError", "DecodingError"}
  /\ Lag \in Nat /\ MaxBegin \in Nat /\ MaxNow \in Nat
  /\ None \notin Outcomes

VARIABLES
  pc,        \* where each call is
  attempt,   \* chat(): attempt
  total,     \* its Deadline's budget
  start,     \* its Deadline's start
  started,   \* chat(): started
  timeout,   \* chat(): timeout
  due,       \* when the timer the call waits on fires
  phase,     \* timed operations the request has begun, up to NetPhases + 1
  trickled,  \* history: has a request of the call trickled?
  failure,   \* chat(): last_error, with what the policy is told of it
  failedAt,  \* when that failure came
  outcome,   \* how the call ended, None until then
  closed,    \* LLMClient._closed
  closedAt,  \* history: when it became true
  now        \* the clock

budgetVars == <<total, start, started>>
netVars    == <<timeout, phase, trickled>>
closing    == <<closed, closedAt>>
errorVars  == <<failure, failedAt>>
callVars   == <<pc, attempt, budgetVars, netVars, due, errorVars, outcome>>
vars       == <<callVars, closing, now>>

At(s)     == {c \in Calls : pc[c] = s}
InRequest == {"pooled", "net"}
Timed     == {"pooled", "net", "sleeping"}
Active    == {c \in Calls : pc[c] \in Timed}

(* A failed attempt without a response, and with one                       *)
Raised(exc) == [status |-> None, exc |-> exc, retry_after |-> None]

Answered(status, header) ==
  [status |-> status, exc |-> "APIStatusError",
   retry_after |-> retry_after_seconds(header)]

Init ==
  /\ pc = [c \in Calls |-> "idle"]
  /\ attempt = [c \in Calls |-> 0]
  /\ total = [c \in Calls |-> None]
  /\ start = [c \in Calls |-> 0]
  /\ started = [c \in Calls |-> 0]
  /\ timeout = [c \in Calls |-> TimeoutS]
  /\ due = [c \in Calls |-> 0]
  /\ phase = [c \in Calls |-> 0]
  /\ trickled = [c \in Calls |-> FALSE]
  /\ failure = [c \in Calls |-> None]
  /\ failedAt = [c \in Calls |-> 0]
  /\ outcome = [c \in Calls |-> None]
  /\ closed = FALSE
  /\ closedAt = 0
  /\ now = 0

-----------------------------------------------------------------------------
End(c, o) ==
  /\ pc' = [pc EXCEPT ![c] = "ended"]
  /\ outcome' = [outcome EXCEPT ![c] = o]
  /\ due' = [due EXCEPT ![c] = 0]

(* The pieces of the loop's head: the check of a Deadline that is tot from *)
(* st on, the attempt's timeout, and the post that a closed httpx client   *)
(* refuses.                                                                *)
NoCheck(tot, st) == FALSE
BudgetGone(tot, st) == expired(tot, st, now)

NotClamped(tot, st) == TimeoutS
AttemptTimeout(tot, st) == clamp(tot, st, now, TimeoutS)

KeptOpen == FALSE
ClientClosed == closed /\ OwnsClient

(* The head of the loop.  The RuntimeError of a closed client is a failure *)
(* that nobody retries.                                                    *)
Attempt(c, tot, st) ==
  \/ /\ BudgetGone(tot, st)
     /\ End(c, "RetryBudgetExceeded")
     /\ UNCHANGED <<netVars, errorVars>>
  \/ /\ ~BudgetGone(tot, st)
     /\ ClientClosed
     /\ timeout' = [timeout EXCEPT ![c] = AttemptTimeout(tot, st)]
     /\ failure' = [failure EXCEPT ![c] = Raised("RuntimeError")]
     /\ failedAt' = [failedAt EXCEPT ![c] = now]
     /\ End(c, "last_error")
     /\ UNCHANGED <<phase, trickled>>
  \/ /\ ~BudgetGone(tot, st)
     /\ ~ClientClosed
     /\ timeout' = [timeout EXCEPT ![c] = AttemptTimeout(tot, st)]
     /\ due' = [due EXCEPT ![c] = now + AttemptTimeout(tot, st)]
     /\ IF Cardinality(At("net")) < PoolSize
        THEN /\ pc' = [pc EXCEPT ![c] = "net"]
             /\ phase' = [phase EXCEPT ![c] = 1]
        ELSE /\ pc' = [pc EXCEPT ![c] = "pooled"]
             /\ phase' = [phase EXCEPT ![c] = 0]
     /\ UNCHANGED <<trickled, errorVars, outcome>>

(* The rest of the loop after a failed attempt f: raise it, give up for    *)
(* want of time, or sleep for one of the delays the policy may choose.     *)
Fail(c, f) ==
  /\ failure' = [failure EXCEPT ![c] = f]
  /\ failedAt' = [failedAt EXCEPT ![c] = now]
  /\ \/ /\ ~should_retry(attempt[c], f)
        /\ End(c, "last_error")
     \/ /\ should_retry(attempt[c], f)
        /\ expired(total[c], start[c], now)
        /\ End(c, "RetryBudgetExceeded")
     \/ /\ should_retry(attempt[c], f)
        /\ ~expired(total[c], start[c], now)
        /\ \E d \in delay_for(attempt[c], f.retry_after) :
              due' = [due EXCEPT ![c] = now + clamp(total[c], start[c], now, d)]
        /\ pc' = [pc EXCEPT ![c] = "sleeping"]
        /\ UNCHANGED outcome
  /\ UNCHANGED <<attempt, budgetVars, netVars, closing, now>>

-----------------------------------------------------------------------------
(* chat is called; the caller may hand it a Deadline made age units ago.   *)
Begin(c, tot, age) ==
  /\ pc[c] = "idle"
  /\ now <= MaxBegin
  /\ ~closed
  /\ total' = [total EXCEPT ![c] = tot]
  /\ start' = [start EXCEPT ![c] = now - age]
  /\ started' = [started EXCEPT ![c] = now]
  /\ Attempt(c, tot, now - age)
  /\ UNCHANGED <<attempt, closing, now>>

(* "client is closed", or no messages                                      *)
Reject(c) ==
  /\ pc[c] = "idle"
  /\ now <= MaxBegin
  /\ \E o \in {"LLMError", "ValueError"} :
        /\ o = "LLMError" <=> closed
        /\ End(c, o)
  /\ UNCHANGED <<attempt, budgetVars, netVars, errorVars, closing, now>>

(* The pool gives a queued request a connection.                           *)
Grant(c) ==
  /\ pc[c] = "pooled"
  /\ Cardinality(At("net")) < PoolSize
  /\ pc' = [pc EXCEPT ![c] = "net"]
  /\ phase' = [phase EXCEPT ![c] = 1]
  /\ due' = [due EXCEPT ![c] = now + timeout[c]]
  /\ UNCHANGED <<attempt, budgetVars, timeout, trickled, errorVars, outcome,
                 closing, now>>

(* One timed operation of the request is done and the next one begins: as  *)
(* often as the server likes, if it is one that trickles.                  *)
Proceed(c) ==
  /\ pc[c] = "net"
  /\ phase[c] < NetPhases \/ c \in Tricklers
  /\ phase' = [phase EXCEPT ![c] = Least(@ + 1, NetPhases + 1)]
  /\ trickled' = [trickled EXCEPT ![c] = @ \/ phase[c] >= NetPhases]
  /\ due' = [due EXCEPT ![c] = now + timeout[c]]
  /\ UNCHANGED <<pc, attempt, budgetVars, timeout, errorVars, outcome, closing, now>>

(* A request goes on: it gets its connection, or its next operation.       *)
Advance(c) ==
  /\ pc[c] \in InRequest
  /\ Grant(c) \/ Proceed(c)

(* A response below 400: _finish parses it and charges the ledger, and     *)
(* what it raises is not retried.                                          *)
Finish(c) ==
  /\ pc[c] = "net"
  /\ \E o \in {"Completion", "ResponseShapeError", "ParseError", "LedgerError"} :
        End(c, o)
  /\ UNCHANGED <<attempt, budgetVars, netVars, errorVars, closing, now>>

Refuse(c, status, header) ==
  /\ pc[c] = "net"
  /\ status >= 400
  /\ Fail(c, Answered(status, header))

(* The request breaks: a transport failure, or an error that is neither.   *)
Break(c, exc) ==
  /\ pc[c] \in InRequest
  /\ Fail(c, Raised(exc))

(* httpx gives up on the operation it waits for.                           *)
Expire(c) ==
  /\ pc[c] \in InRequest
  /\ due[c] <= now
  /\ Fail(c, Raised("TimeoutException"))

Uncounted(c) == attempt[c]
NextAttempt(c) == attempt[c] + 1

(* The sleep is over: attempt += 1 and round the loop.                     *)
Wake(c) ==
  /\ pc[c] = "sleeping"
  /\ due[c] <= now
  /\ attempt' = [attempt EXCEPT ![c] = NextAttempt(c)]
  /\ Attempt(c, total[c], start[c])
  /\ UNCHANGED <<budgetVars, closing, now>>

(* The caller cancels the call; no `except Exception` catches that.        *)
Cancel(c) ==
  /\ pc[c] \in Timed
  /\ End(c, "CancelledError")
  /\ UNCHANGED <<attempt, budgetVars, netVars, errorVars, closing, now>>

(* LLMClient.aclose.  Requests under way end as the network lets them.     *)
aclose ==
  /\ ~closed
  /\ closed' = TRUE
  /\ closedAt' = now
  /\ UNCHANGED <<callVars, now>>

(* Time passes: a timer is served at most Lag late, and on a punctual loop *)
(* a free connection never waits for a queued request.                     *)
Tick ==
  /\ now < MaxNow
  /\ Active # {}
  /\ \A c \in Active : now < due[c] + Lag
  /\ \/ Lag > 0
     \/ At("pooled") = {}
     \/ Cardinality(At("net")) >= PoolSize
  /\ now' = now + 1
  /\ UNCHANGED <<callVars, closing>>

Terminated ==
  /\ Active = {} \/ now = MaxNow
  /\ UNCHANGED vars

Timer(c) == Expire(c) \/ Wake(c)

(* What a call under way may do but complete or be cancelled               *)
Progress(c) ==
  \/ Advance(c)
  \/ \E status \in Statuses, header \in Headers : Refuse(c, status, header)
  \/ \E exc \in Exceptions : Break(c, exc)
  \/ Timer(c)

Step(c) ==
  \/ \E tot \in Deadlines, age \in Ages : Begin(c, tot, age)
  \/ Reject(c)
  \/ Progress(c)
  \/ Finish(c)
  \/ Cancel(c)

Next ==
  \/ \E c \in Calls : Step(c)
  \/ aclose
  \/ Tick
  \/ Terminated

Spec == Init /\ [][Next]_vars

(* The clock goes on, timers fire and free connections are handed out; no  *)
(* answer of the server's and no cancellation is taken for granted.        *)
Fairness ==
  /\ WF_vars(Tick)
  /\ \A c \in Calls : WF_vars(Timer(c)) /\ WF_vars(Grant(c))

FairSpec == Spec /\ Fairness

-----------------------------------------------------------------------------
Failures ==
  [status : Nat \cup {None},
   exc : {"APIStatusError", "TimeoutException", "TransportError",
          "DecodingError", "RuntimeError"},
   retry_after : Nat \cup {None}]

(* Every variable stays in its range; no attempt beyond max_retries.       *)
TypeOK ==
  /\ pc \in [Calls -> Timed \cup {"idle", "ended"}]
  /\ attempt \in [Calls -> 0 .. MaxRetries]
  /\ total \in [Calls -> Nat \cup {None}]
  /\ start \in [Calls -> Int]
  /\ started \in [Calls -> Nat]
  /\ timeout \in [Calls -> 0 .. TimeoutS]
  /\ due \in [Calls -> Nat]
  /\ phase \in [Calls -> 0 .. NetPhases + 1]
  /\ trickled \in [Calls -> BOOLEAN]
  /\ failure \in [Calls -> Failures \cup {None}]
  /\ failedAt \in [Calls -> Nat]
  /\ outcome \in [Calls -> Outcomes \cup {None}]
  /\ closed \in BOOLEAN
  /\ closedAt \in Nat
  /\ now \in Nat

(* "A server-provided Retry-After always wins": whatever the deadline cuts *)
(* off the sleep, the next attempt reaches the server no earlier than the  *)
(* server asked, max_delay_s being the most that is granted.               *)
Posts(c) == pc[c] \notin InRequest /\ pc'[c] \in InRequest

NoEarlyRetry ==
  [][\A c \in Calls :
       (Posts(c) /\ failure[c] # None /\ failure[c].retry_after # None)
         => now >= failedAt[c] + Least(failure[c].retry_after, MaxDelay)]_vars

(* A call fails with a curable error only when its retries are used up,    *)
(* and gives up for want of time only when its deadline has passed.        *)
NoEarlySurrender ==
  [][\A c \in Calls : pc[c] # "ended" =>
       /\ (outcome'[c] = "last_error" /\ Retryable(failure'[c]))
            => attempt'[c] = MaxRetries
       /\ outcome'[c] = "RetryBudgetExceeded"
            => HasDeadline(total'[c]) /\ now >= start'[c] + total'[c]]_vars

(* How far a request under way may carry a call beyond its deadline, as    *)
(* long as it does not trickle: every timed operation but the first may    *)
(* take a whole timeout more.  Earlier requests may have trickled: the     *)
(* deadline is checked, and clamps, between two requests.                  *)
Contended == Cardinality(Calls) > PoolSize
Operations == IF Contended THEN NetPhases + 1 ELSE NetPhases
Trickles(c) == pc[c] = "net" /\ phase[c] > NetPhases

OverrunBound ==
  \A c \in Active : (HasDeadline(total[c]) /\ ~Trickles(c)) =>
     now <= start[c] + total[c] + Lag * Operations
              + (Operations - 1) * Least(TimeoutS, total[c])

(* Without a deadline too a call none of whose requests trickles is over   *)
(* in bounded time: max_retries + 1 requests and the sleeps between them.  *)
Request == Operations * (TimeoutS + Lag)
Pause   == MaxDelay + Lag

CallBound ==
  \A c \in Active : ~trickled[c] =>
     now - started[c] <= (MaxRetries + 1) * Request + MaxRetries * Pause

(* aclose ends the retries of the calls it finds under way: over a client  *)
(* of its own such a call finishes the request it has posted, which may    *)
(* still get its connection from the pool, and at most one sleep, however  *)
(* many retries and however much of its deadline it has left.              *)
CloseBound ==
  (closed /\ OwnsClient) =>
     \A c \in Active : ~trickled[c] => now - closedAt <= Request + Pause

(* "the budget is honoured rather than merely intended" (retry.py): a call *)
(* is over when its deadline has passed.                                   *)
DeadlineHonoured ==
  \A c \in Active : HasDeadline(total[c]) => now <= start[c] + total[c]

(* Every call that begins comes to an end, by the clock and the timers     *)
(* alone, unless the server lets one of its requests trickle: that can     *)
(* keep it alive for ever, with a deadline or without.                     *)
CallEnds ==
  \A c \in Calls : (pc[c] \in Timed) ~> (pc[c] = "ended" \/ trickled[c])
=============================================================================
