----------------------------- MODULE BoundedMap -----------------------------
(***************************************************************************)
(* bounded_map of src/llm_client_kit/concurrency.py: one asyncio task per  *)
(* item, an asyncio.Semaphore(limit) that admits them, and a gather that   *)
(* waits for all of them.                                                  *)
(*                                                                         *)
(* A step of the model is what a task does between two suspension points:  *)
(* the first step up to the semaphore (Start), the step that follows the   *)
(* semaphore's wake-up (Resume), and the step that follows the end of      *)
(* fn(item) (Complete), which releases the permit and hands it to the next *)
(* waiter.  Being woken and running are two states, because the permit     *)
(* passes to the waiter when it is woken and the waiter runs only later.   *)
(*                                                                         *)
(* The tasks reach acquire() in input order, so the semaphore's deque is   *)
(* ordered by item number and the model keeps it as the set Waiting.       *)
(* The semaphore and gather are the standard library's, of Python 3.11,    *)
(* the version the project's CI installs.                                  *)
(*                                                                         *)
(* Operators defined right before another one with the same parameters and *)
(* used nowhere are mutants of it, bugs that one() or an earlier Semaphore *)
(* might have: LockedByQueue, LockedByValue, FreeWakeUp, NoWakeUp,         *)
(* SinceSubmission, TimingIfReturned, GivesBackIfRunning.                  *)
(***************************************************************************)
EXTENDS Integers, FiniteSets

CONSTANTS
  N,           \* number of items
  Limit,       \* the limit argument; a negative one raises before any task exists
  None,        \* Python's None
  MaxService,  \* longest time fn takes when the event loop is never late
  LoopLag,     \* may the clock advance while a task is ready to run?
  MaxNow       \* bound: the clock stops here

ASSUME BatchAssumption == N \in Nat /\ Limit \in Nat

ASSUME ClockAssumption ==
  /\ MaxService \in Nat
  /\ MaxNow \in Nat
  /\ LoopLag \in BOOLEAN

Items == 1 .. N

Timings == [queued_s : Nat, service_s : Nat]

ASSUME NoneAssumption == None \notin Items /\ None \notin Timings

VARIABLES
  pc,         \* where each item's task is
  value,      \* Semaphore._value
  results,    \* results, one slot per item
  errors,     \* stats.errors
  submitted,  \* one(): submitted
  started,    \* one(): started
  queued,     \* one(): t.queued_s
  timings,    \* timings, one slot per item
  status,     \* the coroutine bounded_map itself
  now         \* clock()

semVars   == <<pc, value>>
tallyVars == <<results, errors, timings>>
clockVars == <<submitted, started, queued>>
vars      == <<semVars, tallyVars, clockVars, status, now>>

States    == {"created", "waiting", "woken", "running",
              "returned", "raised", "cancelled"}
Ended     == {"returned", "raised", "cancelled"}
Statuses  == {"gathering", "cancelling", "returned", "cancelled"}

At(s)     == {i \in Items : pc[i] = s}
Waiting   == At("waiting")
Running   == At("running")
Holders   == {i \in Items : pc[i] \in {"woken", "running"}}
AllEnded  == \A i \in Items : pc[i] \in Ended
Cancelled == status \in {"cancelling", "cancelled"}

-----------------------------------------------------------------------------
Init ==
  /\ pc = [i \in Items |-> "created"]
  /\ value = Limit
  /\ results = [i \in Items |-> None]
  /\ errors = 0
  /\ timings = [i \in Items |-> None]
  /\ submitted = [i \in Items |-> 0]
  /\ started = [i \in Items |-> 0]
  /\ queued = [i \in Items |-> 0]
  /\ status = "gathering"
  /\ now = 0

(***************************************************************************)
(* asyncio.Semaphore.  Once a cancellation is under way the futures of the *)
(* waiting tasks are cancelled too, so they neither lock the semaphore nor *)
(* can be woken; Pending is what is left of the deque for wake_up_next.    *)
(***************************************************************************)
Pending == IF Cancelled THEN {} ELSE Waiting

LockedByQueue == Pending # {} \/ At("woken") # {}
LockedByValue == value = 0
Locked == value = 0 \/ Pending # {} \/ At("woken") # {}

FirstOf(S) == CHOOSE i \in S : \A j \in S : i <= j

FreeWakeUp(v, i, s) ==
  /\ value' = IF v > Limit THEN Limit ELSE v
  /\ pc' = IF v > 0 /\ Pending \ {i} # {}
           THEN [pc EXCEPT ![i] = s, ![FirstOf(Pending \ {i})] = "woken"]
           ELSE [pc EXCEPT ![i] = s]

NoWakeUp(v, i, s) == value' = v /\ pc' = [pc EXCEPT ![i] = s]

(* _wake_up_next with v permits on hand, after task i has moved to state s *)
WakeUpNext(v, i, s) ==
  IF v > 0 /\ Pending \ {i} # {}
  THEN /\ value' = v - 1
       /\ pc' = [pc EXCEPT ![i] = s, ![FirstOf(Pending \ {i})] = "woken"]
  ELSE /\ value' = v
       /\ pc' = [pc EXCEPT ![i] = s]

-----------------------------------------------------------------------------
(* The task's first step.  gather made the tasks in input order.           *)
Start(i) ==
  /\ ~Cancelled
  /\ pc[i] = "created"
  /\ \A j \in 1 .. (i - 1) : pc[j] # "created"
  /\ submitted' = [submitted EXCEPT ![i] = now]
  /\ IF Locked
     THEN /\ pc' = [pc EXCEPT ![i] = "waiting"]
          /\ UNCHANGED <<value, started, queued>>
     ELSE /\ pc' = [pc EXCEPT ![i] = "running"]
          /\ value' = value - 1
          /\ started' = [started EXCEPT ![i] = now]
          /\ queued' = [queued EXCEPT ![i] = 0]
  /\ UNCHANGED <<tallyVars, status, now>>

(* acquire() ends: with permits left over, it wakes the next waiter too.   *)
PassesOn(i) == WakeUpNext(value, i, "running")

(* one(): started = clock()                                                *)
SinceSubmission(i) == submitted[i]
ServiceStart(i) == now

(* The step after the wake-up; the loop runs woken tasks in wake-up order. *)
Resume(i) ==
  /\ ~Cancelled
  /\ pc[i] = "woken"
  /\ \A j \in 1 .. (i - 1) : pc[j] # "woken"
  /\ PassesOn(i)
  /\ started' = [started EXCEPT ![i] = ServiceStart(i)]
  /\ queued' = [queued EXCEPT ![i] = now - submitted[i]]
  /\ UNCHANGED <<submitted, tallyVars, status, now>>

(* t, as it stands when the `finally` of task i has run                    *)
TimingIfReturned(i, outcome) ==
  IF outcome = "returned"
  THEN [queued_s |-> queued[i], service_s |-> now - started[i]] ELSE None

Timing(i, outcome) == [queued_s |-> queued[i], service_s |-> now - started[i]]

(* fn(item) has ended: the rest of one(), the permit's release included.   *)
Complete(i, outcome) ==
  /\ ~Cancelled
  /\ pc[i] = "running"
  /\ \/ /\ outcome = "returned"
        /\ results' = [results EXCEPT ![i] = i]
        /\ UNCHANGED errors
     \/ /\ outcome = "raised"
        /\ errors' = errors + 1
        /\ UNCHANGED results
  /\ timings' = [timings EXCEPT ![i] = Timing(i, outcome)]
  /\ WakeUpNext(value + 1, i, outcome)
  /\ UNCHANGED <<clockVars, status, now>>

(***************************************************************************)
(* The caller cancels bounded_map, as asyncio.wait_for does; gather passes *)
(* it on to every task that has not ended.  `except Exception` lets        *)
(* CancelledError through, so such a task counts no error, keeps no timing *)
(* and gives back the permit it holds.                                     *)
(***************************************************************************)
Cancel ==
  /\ status = "gathering"
  /\ status' = "cancelling"
  /\ UNCHANGED <<semVars, tallyVars, clockVars, now>>

(* A task that was woken holds a permit, though it has not resumed.        *)
GivesBackIfRunning(i) == pc[i] = "running"
GivesBack(i) == i \in Holders

Unwind(i) ==
  /\ Cancelled
  /\ pc[i] \notin Ended
  /\ IF GivesBack(i)
     THEN WakeUpNext(value + 1, i, "cancelled")
     ELSE /\ pc' = [pc EXCEPT ![i] = "cancelled"]
          /\ UNCHANGED value
  /\ UNCHANGED <<tallyVars, clockVars, status, now>>

(* gather is done: the tail of bounded_map                                 *)
Return ==
  /\ status = "gathering"
  /\ AllEnded
  /\ status' = "returned"
  /\ UNCHANGED <<semVars, tallyVars, clockVars, now>>

(* gather raises as soon as one of its tasks is cancelled                  *)
Abort ==
  /\ status = "cancelling"
  /\ At("cancelled") # {} \/ AllEnded
  /\ status' = "cancelled"
  /\ UNCHANGED <<semVars, tallyVars, clockVars, now>>

(***************************************************************************)
(* Time.  Without LoopLag a task that is ready runs before the clock moves *)
(* and fn ends within MaxService; with it the loop may be late by any time.*)
(***************************************************************************)
(* How long fn(item) has run: since the end of the item's queue time.      *)
Elapsed(i) == now - (submitted[i] + queued[i])

Ready ==
  \/ At("created") \cup At("woken") # {}
  \/ Cancelled /\ ~AllEnded
  \/ status \in {"gathering", "cancelling"} /\ AllEnded

Tick ==
  /\ now < MaxNow
  /\ \/ LoopLag
     \/ ~Ready /\ \A i \in Running : Elapsed(i) < MaxService
  /\ now' = now + 1
  /\ UNCHANGED <<semVars, tallyVars, clockVars, status>>

(* The batch is over, or the bound on the clock has been reached.          *)
Terminated ==
  /\ (status \in {"returned", "cancelled"} /\ AllEnded) \/ now = MaxNow
  /\ UNCHANGED vars

Step(i) ==
  \/ Start(i)
  \/ Resume(i)
  \/ \E outcome \in {"returned", "raised"} : Complete(i, outcome)
  \/ Unwind(i)

Next ==
  \/ \E i \in Items : Step(i)
  \/ Cancel
  \/ Return
  \/ Abort
  \/ Tick
  \/ Terminated

Spec == Init /\ [][Next]_vars

(* The event loop runs every ready task, and fn always ends.               *)
Fairness ==
  /\ \A i \in Items : WF_vars(Step(i))
  /\ WF_vars(Return \/ Abort)

FairSpec == Spec /\ Fairness

-----------------------------------------------------------------------------
(* Every variable stays in its range: one slot per item for results and    *)
(* timings, a semaphore value between 0 and the limit.                     *)
TypeOK ==
  /\ pc \in [Items -> States]
  /\ value \in 0 .. Limit
  /\ results \in [Items -> Items \cup {None}]
  /\ errors \in Nat
  /\ submitted \in [Items -> Nat]
  /\ started \in [Items -> Nat]
  /\ queued \in [Items -> Nat]
  /\ timings \in [Items -> Timings \cup {None}]
  /\ status \in Statuses
  /\ now \in Nat

(* No permit is lost or made up on any path through one(): what the        *)
(* semaphore has left and what the woken and running tasks hold always add *)
(* up to the limit, through failures, cancellations and hand-overs.        *)
PermitsConserved == value + Cardinality(Holders) = Limit

(* "at most `limit` in flight": fn never runs for more items than the      *)
(* limit, whoever was woken and whoever arrived in between.                *)
AdmissionLimit == Cardinality(Running) <= Limit

(* Items are admitted in input order: no later item runs, or has run,      *)
(* while an earlier one has not been admitted; nobody overtakes a task     *)
(* that holds a permit but has not resumed.                                *)
AdmittedInOrder ==
  \A i, j \in Items :
     /\ i < j
     /\ pc[j] \in {"running", "returned", "raised"}
     => pc[i] \notin {"created", "waiting", "woken"}

(* The semaphore never strands a waiter: while an item waits and no        *)
(* wake-up is on its way, every slot of the limit is busy, so the measured *)
(* queue time is time the limit really imposed.                            *)
WorkConserving ==
  (Waiting # {} /\ At("woken") = {} /\ ~Cancelled)
     => Cardinality(Running) = Limit

(* Queue time is set by the limit and service time by the work: on a loop  *)
(* that is never late, item i is admitted after at most (i - 1) \div Limit *)
(* services, and no reported service time exceeds the work's own.  (With a *)
(* limit of 0 nobody is ever admitted.)                                    *)
Waves(i) == (i - 1) \div Limit

WaveModel ==
  (~LoopLag /\ Limit > 0) =>
     \A i \in Items :
        /\ queued[i] <= Waves(i) * MaxService
        /\ timings[i] # None => timings[i].service_s <= MaxService

(* What the caller of bounded_map sees of it refines Batch: admission in   *)
(* input order under the limit, and a reply with one result per item, in   *)
(* input order, whose error count and timings fit the results.             *)
Fate(i) ==
  IF pc[i] \in {"created", "waiting", "woken"} THEN "queued"
  ELSE IF pc[i] = "running" THEN "inflight"
  ELSE IF pc[i] = "returned" THEN "ok"
  ELSE IF pc[i] = "raised" THEN "failed" ELSE "dropped"

Reply ==
  IF status = "returned"
  THEN [results |-> results,
        errors  |-> errors,
        n       |-> Cardinality({i \in Items : timings[i] # None})]
  ELSE None

B == INSTANCE Batch WITH fate <- [i \in Items |-> Fate(i)], reply <- Reply

ImplementsBatch == B!Spec

(* The batch ends: every task is admitted and finishes, so bounded_map     *)
(* returns its results or hands its caller the cancellation.               *)
BatchEnds == <>(status \in {"returned", "cancelled"})
=============================================================================
