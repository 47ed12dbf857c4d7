------------------------------ MODULE ChatMany ------------------------------
(***************************************************************************)
(* LLMClient.chat_many of src/llm_client_kit/transport.py: bounded_map     *)
(* over LLMClient.chat, with a ledger that every answered call is charged  *)
(* to.                                                                     *)
(*                                                                         *)
(* bounded_map is used as module Batch describes it, which is what it does *)
(* (theorem Refinement) and what the batch does here (theorem BatchKept):  *)
(* items are admitted in input order, at most Limit are in flight, and     *)
(* what an item raises, BudgetExceeded included, is counted as a failure.  *)
(* An item is in flight while its chat is; a chat that raises before it    *)
(* first awaits is admitted and over in one step.                          *)
(*                                                                         *)
(* Mutants, each before what it mutates: EverAdmitted, Requesting,         *)
(* OneShort, SharedDeadline, UnlessBroken; the others are in Billing, Chat *)
(* and Retry.                                                              *)
(***************************************************************************)
EXTENDS Chat, Functions

CONSTANTS
  Prices, Strict,  \* the ledger's, see Billing
  BudgetUsd,       \* CostLedger.budget_usd, or None
  Model,           \* ClientConfig.model
  Responses,       \* what the server may answer below status 400, see Billing
  LimitArg,        \* chat_many's limit, or None
  MaxConcurrency   \* ClientConfig.max_concurrency

INSTANCE Billing

(* limit or self.config.max_concurrency                                    *)
Limit == IF LimitArg \in {None, 0} THEN MaxConcurrency ELSE LimitArg

ASSUME ManyAssumption ==
  /\ IsFiniteSet(Calls) /\ Calls = 1 .. Cardinality(Calls)
  /\ 0 \in Ages
  /\ LimitArg \in Nat \cup {None} /\ MaxConcurrency \in Nat
  /\ BudgetUsd \in Nat \cup {None}
  /\ Prices \in [Models -> PriceShape \cup {None}]
  /\ Model \in Models /\ None \notin {"ValueError", "KeyError"}
  /\ Responses \subseteq ResponseShape /\ None \notin Responses
  /\ OwnsClient => PoolSize = IF MaxConcurrency > 1 THEN MaxConcurrency ELSE 1

VARIABLES
  deadline_s,  \* what each call's Deadline is made with
  status,      \* the coroutine chat_many
  answer,      \* the response each call was completed with, or None
  spent        \* CostLedger.total_decimal

batchVars == <<deadline_s, status, answer, spent>>
manyVars  == <<vars, batchVars>>

BatchInit ==
  /\ Init
  /\ deadline_s \in Deadlines
  /\ status = "gathering"
  /\ answer = [c \in Calls |-> None]
  /\ spent = 0

-----------------------------------------------------------------------------
EverAdmitted == {c \in Calls : pc[c] # "idle"}
Requesting == At("pooled") \cup At("net")
InFlight == Active

OneShort == Cardinality(InFlight) + 1 < Limit
PermitFree == Cardinality(InFlight) < Limit

Admissible(c) ==
  /\ status = "gathering"
  /\ pc[c] = "idle"
  /\ \A d \in 1 .. (c - 1) : pc[d] # "idle"
  /\ PermitFree

SharedDeadline == now
DeadlineAge == 0

(* The semaphore admits the item and one() calls chat with a new Deadline. *)
Admit(c) ==
  /\ Admissible(c)
  /\ Begin(c, deadline_s, DeadlineAge) \/ Reject(c)
  /\ UNCHANGED batchVars

OverBudget(sum) == BudgetUsd # None /\ sum > BudgetUsd

UnlessBroken(cost) == IF OverBudget(spent + cost) THEN spent ELSE spent + cost
Charged(cost) == spent + cost

(* A response below 400: _finish parses it, records it and then checks the *)
(* budget, and only a call that passes all three is completed.             *)
Deliver(c, r) ==
  LET model == ChargedModel(r, Model)
      error == RecordError(model, UsageOf(r))
  IN /\ status = "gathering"
     /\ Finish(c)
     /\ answer' = [answer EXCEPT ![c] = r]
     /\ spent' = IF ShapeError(r) # None \/ error # None THEN spent
                 ELSE Charged(Cost(model, UsageOf(r)))
     /\ outcome'[c] = IF ShapeError(r) # None THEN ShapeError(r)
                      ELSE IF error # None \/ OverBudget(spent') THEN "LedgerError"
                      ELSE "Completion"
     /\ UNCHANGED <<deadline_s, status>>

(* Any other step of a call that has been admitted                         *)
Work(c) ==
  /\ status = "gathering"
  /\ Progress(c)
  /\ UNCHANGED batchVars

(* The caller cancels chat_many: gather cancels every call that has not    *)
(* ended, and no call does anything else after that.                       *)
CancelBatch ==
  /\ status = "gathering"
  /\ status' = "cancelling"
  /\ UNCHANGED <<vars, deadline_s, answer, spent>>

Drop(c) ==
  /\ status \in {"cancelling", "cancelled"}
  /\ pc[c] # "ended"
  /\ End(c, "CancelledError")
  /\ UNCHANGED <<attempt, budgetVars, netVars, errorVars, closing, now, batchVars>>

AllEnded == \A c \in Calls : pc[c] = "ended"

Return ==
  /\ status = "gathering" /\ AllEnded
  /\ status' = "returned"
  /\ UNCHANGED <<vars, deadline_s, answer, spent>>

Abort ==
  /\ status = "cancelling"
  /\ AllEnded \/ \E c \in Calls : outcome[c] = "CancelledError"
  /\ status' = "cancelled"
  /\ UNCHANGED <<vars, deadline_s, answer, spent>>

Close == status = "gathering" /\ aclose /\ UNCHANGED batchVars

(* On a punctual loop a call that can be admitted, and a batch that is     *)
(* over, do not wait for the clock.                                        *)
Pass ==
  /\ Tick
  /\ status = "gathering"
  /\ Lag > 0 \/ \A c \in Calls : ~Admissible(c)
  /\ UNCHANGED batchVars

Over ==
  /\ (status \in {"returned", "cancelled"} /\ AllEnded) \/ now = MaxNow
  /\ UNCHANGED manyVars

BatchNext ==
  \/ \E c \in Calls :
        \/ Admit(c)
        \/ \E r \in Responses : Deliver(c, r)
        \/ Work(c)
        \/ Drop(c)
  \/ CancelBatch
  \/ Return
  \/ Abort
  \/ Close
  \/ Pass
  \/ Over

BatchSpec == BatchInit /\ [][BatchNext]_manyVars

(* Chat's fairness and the scheduler's: the clock goes on, timers fire,    *)
(* free connections and free permits are handed out and ready coroutines   *)
(* run.  The server need not answer.                                       *)
BatchFairness ==
  /\ WF_manyVars(Pass)
  /\ \A c \in Calls :
        /\ WF_manyVars(Work(c) /\ (Grant(c) \/ Timer(c)))
        /\ WF_manyVars(Admit(c))
        /\ WF_manyVars(Drop(c))
  /\ WF_manyVars(Return \/ Abort)

FairBatch == BatchSpec /\ BatchFairness

-----------------------------------------------------------------------------
(* The variables that chat_many adds stay in their ranges.                 *)
ManyTypeOK ==
  /\ TypeOK
  /\ deadline_s \in Deadlines
  /\ status \in {"gathering", "cancelling", "returned", "cancelled"}
  /\ answer \in [Calls -> Responses \cup {None}]
  /\ spent \in Nat

(* "Pool sized to the admission limit": a call waits for a connection only *)
(* if the limit admits more calls than the pool has connections, and then  *)
(* no more of them than that, whatever sleeps and retries in between.      *)
QueueOnlyBeyondPool ==
  Cardinality(At("pooled")) <= IF Limit > PoolSize THEN Limit - PoolSize ELSE 0

(* "Each call receives its own Deadline": a call that gives up for want of *)
(* time has had all of deadline_s since it was admitted, however long it   *)
(* was queued behind others.                                               *)
FullAllowance ==
  [][\A c \in Calls :
       (outcome[c] = None /\ outcome'[c] = "RetryBudgetExceeded")
         => now - started'[c] >= deadline_s]_manyVars

(* What an answered call costs: at the price of the model that answered,   *)
(* or of the configured one where the server names none, and nothing where *)
(* it reports no tokens.                                                   *)
Answerer(c) == IF answer[c].model # None THEN answer[c].model ELSE Model

PriceOf(c) ==
  IF answer[c].usage = None THEN 0 ELSE Cost(Answerer(c), answer[c].usage)

Worth(S) == SumFunction([c \in S |-> PriceOf(c)])

Delivered == {c \in Calls : outcome[c] = "Completion"}

(* The answers with a choice to read whose counts the ledger accepts and   *)
(* whose model it can price                                                *)
Billable ==
  {c \in Calls :
     /\ answer[c] # None
     /\ answer[c].choices = "some"
     /\ RecordError(Answerer(c), UsageOf(answer[c])) = None}

(* What the caller gets was bought within the budget: the completions of a *)
(* batch together cost no more, in whatever order the calls were charged.  *)
DeliveredWithinBudget == BudgetUsd # None => Worth(Delivered) <= BudgetUsd

(* "the tokens were spent regardless": the ledger's total is the price of  *)
(* every answer it could price, each of them once and nothing else: those  *)
(* that the batch turned into None because the budget was gone are in it,  *)
(* and those that could not be read or priced are not.                     *)
PaidIsRecorded == spent = Worth(Billable)

(* As long as no request has trickled, no call waits longer for its        *)
(* admission than the calls before it can take, Limit at a time, each      *)
(* bounded by its deadline or by its retries.                              *)
Untrickled == \A c \in Calls : ~trickled[c]

CallTime ==
  LET retries == (MaxRetries + 1) * Request + MaxRetries * Pause
  IN IF ~HasDeadline(deadline_s) THEN retries
     ELSE Least(retries, deadline_s + (Operations - 1) * Least(TimeoutS, deadline_s))

QueueBound ==
  (Lag = 0 /\ Limit > 0 /\ Untrickled) =>
    \A c \in Calls :
       (status = "gathering" /\ pc[c] = "idle")
         => now <= ((c - 1) \div Limit) * CallTime

(* What the caller of chat_many sees is what bounded_map promises, with    *)
(* chat for its work: through retries, sleeps, a close and whatever the    *)
(* ledger raises, an item is in flight from its admission to its one end,  *)
(* and every result that is no completion is counted as an error.          *)
Fate(c) ==
  IF pc[c] = "idle" THEN "queued"
  ELSE IF pc[c] # "ended" THEN "inflight"
  ELSE IF outcome[c] = "Completion" THEN "ok"
  ELSE IF outcome[c] = "CancelledError" THEN "dropped" ELSE "failed"

Reply ==
  IF status = "returned"
  THEN [results |-> [c \in Calls |-> IF outcome[c] = "Completion" THEN c ELSE None],
        errors  |-> Cardinality({c \in Calls : Fate(c) = "failed"}),
        n       |-> Cardinality({c \in Calls : Fate(c) \in {"ok", "failed"}})]
  ELSE None

B == INSTANCE Batch WITH
  N <- Cardinality(Calls), fate <- [c \in Calls |-> Fate(c)], reply <- Reply

ImplementsBatch == B!Spec

(* The batch ends by the client's own timers, though the server never      *)
(* answers, unless it lets a request trickle: a call that goes on for ever *)
(* keeps the gather waiting.                                               *)
BatchEnds == <>(status \in {"returned", "cancelled"} \/ ~Untrickled)

(* "A budget that raises, so an unattended loop stops itself" (README): no *)
(* request is sent once the budget is broken.                              *)
StopsWhenBroken ==
  [][\A c \in Calls : Posts(c) => ~OverBudget(spent)]_manyVars
=============================================================================
