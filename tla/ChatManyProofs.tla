--------------------------- MODULE ChatManyProofs ---------------------------
(***************************************************************************)
(* Theorems about ChatMany for any number of calls, any limits, any prices *)
(* and any lateness of the event loop.  Apart from the cancellation of a   *)
(* call that never began, every step of the batch is a step of Chat, so    *)
(* the invariants of Chat carry over; the batch adds who is in flight,     *)
(* which deadline a call has, what its answers cost (MoneyInv) and how     *)
(* long the calls before it can keep a call waiting (QueueInv).            *)
(***************************************************************************)
EXTENDS ChatMany, ChatTimeProofs

(* Every call under way has its own allowance, counted from its admission. *)
OwnDeadline ==
  \A c \in Active : total[c] = deadline_s /\ start[c] = started[c]

Admitted == Cardinality(Active) <= Limit

MInv ==
  /\ TInv
  /\ ManyTypeOK
  /\ OwnDeadline
  /\ Admitted
  /\ QueueOnlyBeyondPool

-----------------------------------------------------------------------------
(* A step of the batch is a step of Chat or cancels one call.              *)
LEMMA ChatStep ==
  ASSUME ManyTypeOK, [BatchNext]_manyVars
  PROVE  [Next]_vars \/ \E c \in Calls : Drop(c)
<1>1. ASSUME NEW c \in Calls, Admit(c) \/ (\E r \in Responses : Deliver(c, r)) \/ Work(c)
      PROVE  Step(c)
  <2>1. deadline_s \in Deadlines /\ DeadlineAge \in Ages
    BY ManyAssumption DEF ManyTypeOK, DeadlineAge
  <2> QED
    BY <1>1, <2>1 DEF Admit, Deliver, Work, Step
<1>2. CASE CancelBatch \/ Return \/ Abort \/ Over \/ UNCHANGED manyVars
  BY <1>2 DEF CancelBatch, Return, Abort, Over, manyVars
<1>3. CASE Close \/ Pass
  BY <1>3 DEF Close, Pass, Next
<1> QED
  BY <1>1, <1>2, <1>3 DEF BatchNext, Next

LEMMA DropInTime ==
  ASSUME TInv, NEW c \in Calls, Drop(c)
  PROVE  TInv'
<1>1. /\ pc' = [pc EXCEPT ![c] = "ended"]
      /\ outcome' = [outcome EXCEPT ![c] = "CancelledError"]
      /\ due' = [due EXCEPT ![c] = 0]
      /\ UNCHANGED <<attempt, budgetVars, netVars, errorVars, closing, now>>
  BY DEF Drop, End
<1>2. IInv'
  <2>1. /\ pc' \in [Calls -> Timed \cup {"idle", "ended"}]
        /\ outcome' \in [Calls -> Outcomes \cup {None}]
        /\ due' \in [Calls -> Nat]
    BY <1>1 DEF TInv, IInv, TypeOK, Outcomes
  <2>2. \A k \in Calls :
           \/ pc'[k] = pc[k] /\ outcome'[k] = outcome[k] /\ due'[k] = due[k]
           \/ pc'[k] = "ended"
    BY <1>1 DEF TInv, IInv, TypeOK
  <2> QED
    BY <1>1, <2>1, <2>2, QuietInvariant DEF TInv, IInv, TypeOK, netVars, closing
<1>3. ASSUME NEW k \in Calls PROVE InTime(k)'
  <2>1. CASE k = c
    <3>1. pc'[k] = "ended"
      BY <1>1, <2>1 DEF TInv, IInv, TypeOK
    <3> QED
      BY <3>1, EndedInTime
  <2>2. CASE k # c
    BY <1>1, <2>2, UntouchedInTime DEF TInv, IInv, TypeOK, budgetVars, netVars
  <2> QED
    BY <2>1, <2>2
<1> QED
  BY <1>2, <1>3 DEF TInv

LEMMA BatchInTime ==
  ASSUME TInv, ManyTypeOK, [BatchNext]_manyVars
  PROVE  TInv'
  BY ChatStep, DropInTime, NextInTime

-----------------------------------------------------------------------------
(* What record charges is never negative.                                  *)
LEMMA CostIsNat ==
  ASSUME NEW m \in Models, NEW u \in UsageShape, RecordError(m, u) = None
  PROVE  Cost(m, u) \in Nat
<1>1. CASE Prices[m] = None
  BY <1>1 DEF Cost
<1>2. CASE Prices[m] # None
  <2> DEFINE fresh == u.prompt - u.cached
             price == Prices[m]
  <2>1. /\ price.input \in Nat /\ price.output \in Nat
        /\ price.cached \in Nat \cup {None}
    BY <1>2, ManyAssumption DEF PriceShape
  <2>2. None \notin {"ValueError", "KeyError"}
    BY ManyAssumption
  <2>3. /\ u.prompt \in Nat /\ u.completion \in Nat /\ u.cached \in Nat
        /\ fresh \in Nat
    BY <1>2, <2>2 DEF RecordError, UsageShape
  <2>4. CachedRate(price) \in Nat
    BY <2>1 DEF CachedRate
  <2>5. Cost(m, u) = price.input * fresh + CachedRate(price) * u.cached
                       + price.output * u.completion
    BY <1>2 DEF Cost, cost_usd
  <2> HIDE DEF fresh, price
  <2>6. /\ price.input * fresh \in Nat /\ CachedRate(price) * u.cached \in Nat
        /\ price.output * u.completion \in Nat
    BY <2>1, <2>3, <2>4, Products
  <2> QED
    BY <2>5, <2>6
<1> QED
  BY <1>1, <1>2

LEMMA BatchTypes ==
  ASSUME TInv, ManyTypeOK, [BatchNext]_manyVars
  PROVE  ManyTypeOK'
<1>1. TypeOK'
  BY BatchInTime DEF TInv, IInv
<1>2. CASE UNCHANGED batchVars
  BY <1>1, <1>2 DEF ManyTypeOK, batchVars
<1>3. ASSUME NEW c \in Calls, NEW r \in Responses, Deliver(c, r)
      PROVE  ManyTypeOK'
  <2> DEFINE model == ChargedModel(r, Model)
             u == UsageOf(r)
  <2>1. r \in ResponseShape
    BY ManyAssumption
  <2>2. model \in Models
    BY <2>1, ManyAssumption DEF ResponseShape, ChargedModel
  <2>3. u \in UsageShape
    BY <2>1 DEF ResponseShape, UsageOf, UsageShape, Tokens
  <2>4. /\ answer' = [answer EXCEPT ![c] = r] /\ UNCHANGED <<deadline_s, status>>
        /\ \/ spent' = spent
           \/ RecordError(model, u) = None /\ spent' = spent + Cost(model, u)
    BY <1>3 DEF Deliver, Charged
  <2>5. RecordError(model, u) = None => Cost(model, u) \in Nat
    BY <2>2, <2>3, CostIsNat
  <2> HIDE DEF model, u
  <2>6. spent' \in Nat
    BY <2>4, <2>5 DEF ManyTypeOK
  <2> QED
    BY <1>1, <2>4, <2>6 DEF ManyTypeOK
<1>4. CASE CancelBatch \/ Return \/ Abort
  BY <1>1, <1>4 DEF ManyTypeOK, CancelBatch, Return, Abort
<1> QED
  BY <1>2, <1>3, <1>4 DEF BatchNext, Admit, Work, Drop, Close, Pass, Over, manyVars

-----------------------------------------------------------------------------
(* What a step of the batch does to one call: an admission gives it its    *)
(* Deadline and a place among the calls in flight, and a call that ends up *)
(* waiting for a connection found every one of them in use.                *)
Moves(c) ==
  /\ \A k \in Calls \ {c} :
        /\ pc'[k] = pc[k] /\ outcome'[k] = outcome[k] /\ total'[k] = total[k]
        /\ start'[k] = start[k] /\ started'[k] = started[k]
  /\ pc[c] = "idle" =>
        /\ pc'[c] \in Timed => Cardinality(Active) < Limit
        /\ (pc'[c] \in Timed \/ outcome'[c] = "RetryBudgetExceeded")
             => total'[c] = deadline_s /\ start'[c] = now /\ started'[c] = now
  /\ pc[c] \in Timed =>
        total'[c] = total[c] /\ start'[c] = start[c] /\ started'[c] = started[c]
  /\ pc[c] = "ended" => pc'[c] = "ended" /\ outcome'[c] = outcome[c]
  /\ (pc'[c] = "pooled" /\ pc[c] # "pooled")
       => pc[c] # "net" /\ ~(Cardinality(At("net")) < PoolSize)

LEMMA AdmitMoves ==
  ASSUME TInv, ManyTypeOK, NEW c \in Calls, Admit(c)
  PROVE  Moves(c)
<1>1. /\ pc \in [Calls -> Timed \cup {"idle", "ended"}]
      /\ outcome \in [Calls -> Outcomes \cup {None}]
      /\ total \in [Calls -> Nat \cup {None}] /\ start \in [Calls -> Int]
      /\ started \in [Calls -> Nat] /\ now \in Nat
  BY DEF TInv, IInv, TypeOK
<1>2. /\ pc[c] = "idle" /\ Cardinality(Active) < Limit
  BY DEF Admit, Admissible, PermitFree, InFlight
<1>3. CASE Begin(c, deadline_s, DeadlineAge)
  <2>1. /\ total' = [total EXCEPT ![c] = deadline_s]
        /\ start' = [start EXCEPT ![c] = now]
        /\ started' = [started EXCEPT ![c] = now]
        /\ Attempt(c, deadline_s, now - DeadlineAge)
    BY <1>1, <1>3 DEF Begin, DeadlineAge
  <2>2. /\ total'[c] = deadline_s /\ start'[c] = now /\ started'[c] = now
        /\ \A k \in Calls \ {c} :
              /\ pc'[k] = pc[k] /\ outcome'[k] = outcome[k] /\ total'[k] = total[k]
              /\ start'[k] = start[k] /\ started'[k] = started[k]
    BY <1>1, <2>1 DEF Attempt, End
  <2>3. pc'[c] = "pooled" => ~(Cardinality(At("net")) < PoolSize)
    BY <1>1, <2>1 DEF Attempt, End
  <2> QED
    BY <1>2, <2>2, <2>3 DEF Moves, Timed
<1>4. CASE Reject(c)
  <2>1. /\ pc' = [pc EXCEPT ![c] = "ended"]
        /\ \E o \in {"LLMError", "ValueError"} : outcome' = [outcome EXCEPT ![c] = o]
        /\ UNCHANGED <<total, start, started>>
    BY <1>4 DEF Reject, End, budgetVars
  <2> QED
    BY <1>1, <1>2, <2>1 DEF Moves, Timed
<1> QED
  BY <1>3, <1>4 DEF Admit

LEMMA OtherMoves ==
  ASSUME TInv, ManyTypeOK, NEW c \in Calls,
         (\E r \in Responses : Deliver(c, r)) \/ Work(c) \/ Drop(c)
  PROVE  Moves(c)
<1>1. /\ pc \in [Calls -> Timed \cup {"idle", "ended"}]
      /\ outcome \in [Calls -> Outcomes \cup {None}]
      /\ total \in [Calls -> Nat \cup {None}] /\ start \in [Calls -> Int]
      /\ started \in [Calls -> Nat] /\ now \in Nat
  BY DEF TInv, IInv, TypeOK
<1>2. CASE \/ \E r \in Responses : Deliver(c, r)
           \/ Drop(c)
  <2>1. /\ pc[c] # "ended" /\ UNCHANGED <<total, start, started>>
        /\ pc' = [pc EXCEPT ![c] = "ended"]
        /\ \A k \in Calls \ {c} : outcome'[k] = outcome[k]
    BY <1>1, <1>2 DEF Deliver, Finish, Drop, End, budgetVars
  <2>2. pc[c] = "idle" => outcome'[c] = "CancelledError"
    BY <1>1, <1>2 DEF Deliver, Finish, Drop, End
  <2> QED
    BY <1>1, <2>1, <2>2 DEF Moves, Timed
<1>3. CASE Work(c)
  <2>1. /\ pc[c] \in Timed /\ UNCHANGED <<total, start, started>>
        /\ \A k \in Calls \ {c} : pc'[k] = pc[k] /\ outcome'[k] = outcome[k]
    BY <1>1, <1>3 DEF Work, Progress, Advance, Timer, Grant, Proceed, Refuse, Break, Expire,
       Wake, Attempt, Fail, End, budgetVars, Timed, InRequest
  <2>2. (pc'[c] = "pooled" /\ pc[c] # "pooled")
          => pc[c] # "net" /\ ~(Cardinality(At("net")) < PoolSize)
    <3>1. CASE Wake(c)
      BY <1>1, <3>1 DEF Wake, Attempt, End
    <3>2. CASE Grant(c) \/ Proceed(c)
      BY <1>1, <3>2 DEF Grant, Proceed
    <3>3. ASSUME NEW f, Fail(c, f) PROVE pc'[c] # "pooled"
      BY <1>1, <3>3 DEF Fail, End
    <3> QED
      BY <1>3, <3>1, <3>2, <3>3 DEF Work, Progress, Advance, Timer, Refuse, Break, Expire
  <2> QED
    BY <2>1, <2>2 DEF Moves, Timed
<1> QED
  BY <1>2, <1>3

LEMMA Movement ==
  ASSUME TInv, ManyTypeOK, [BatchNext]_manyVars
  PROVE  \/ UNCHANGED <<pc, outcome, total, start, started>>
         \/ /\ \E c \in Calls : Moves(c)
            /\ UNCHANGED deadline_s
<1>1. ASSUME NEW c \in Calls, Admit(c) PROVE Moves(c) /\ UNCHANGED deadline_s
  BY <1>1, AdmitMoves DEF Admit, batchVars
<1>2. ASSUME NEW c \in Calls,
             (\E r \in Responses : Deliver(c, r)) \/ Work(c) \/ Drop(c)
      PROVE  Moves(c) /\ UNCHANGED deadline_s
  <2>1. UNCHANGED deadline_s
    BY <1>2 DEF Deliver, Work, Drop, batchVars
  <2> QED
    BY <1>2, <2>1, OtherMoves
<1>3. CASE \/ CancelBatch \/ Return \/ Abort \/ Close \/ Pass \/ Over
           \/ UNCHANGED manyVars
  BY <1>3 DEF CancelBatch, Return, Abort, Close, Pass, Over, manyVars, aclose, Tick,
     vars, callVars, budgetVars
<1> QED
  BY <1>1, <1>2, <1>3 DEF BatchNext

(* Sets of calls are finite.                                               *)
LEMMA FiniteCalls ==
  ASSUME NEW S \in SUBSET Calls
  PROVE  IsFiniteSet(S) /\ Cardinality(S) \in Nat
  BY ClientAssumption, FS_Subset, FS_CardinalityType

LEMMA LimitIsNat == Limit \in Nat /\ PoolSize \in Nat
  BY ManyAssumption, ClientAssumption DEF Limit

LEMMA AdmittedKept ==
  ASSUME TInv, Admitted, NEW c \in Calls, Moves(c)
  PROVE  Admitted'
<1>1. /\ pc \in [Calls -> Timed \cup {"idle", "ended"}]
      /\ Active \in SUBSET Calls /\ Active' \in SUBSET Calls
  BY DEF TInv, IInv, TypeOK, Active
<1>2. CASE pc[c] = "idle" /\ pc'[c] \in Timed
  <2>1. Active' = Active \cup {c} /\ c \notin Active
    BY <1>1, <1>2 DEF Moves, Active, Timed
  <2>2. Cardinality(Active') = Cardinality(Active) + 1
    BY <1>1, <2>1, FiniteCalls, FS_AddElement
  <2> QED
    BY <1>1, <1>2, <2>2, FiniteCalls, LimitIsNat DEF Moves, Admitted
<1>3. CASE ~(pc[c] = "idle" /\ pc'[c] \in Timed)
  <2>1. Active' \in SUBSET Active
    BY <1>1, <1>3 DEF Moves, Active, Timed
  <2>2. Cardinality(Active') <= Cardinality(Active)
    BY <1>1, <2>1, FiniteCalls, FS_Subset
  <2> QED
    BY <1>1, <2>2, FiniteCalls, LimitIsNat DEF Admitted
<1> QED
  BY <1>2, <1>3

(* A call that joins the pool's queue found PoolSize calls on connections, *)
(* and they, the queue and itself are in flight.                           *)
LEMMA QueueKept ==
  ASSUME TInv, QueueOnlyBeyondPool, NEW c \in Calls, Moves(c), Admitted'
  PROVE  QueueOnlyBeyondPool'
<1>1. /\ pc \in [Calls -> Timed \cup {"idle", "ended"}]
      /\ At("pooled") \in SUBSET Calls /\ At("pooled")' \in SUBSET Calls
      /\ At("net") \in SUBSET Calls /\ Active' \in SUBSET Calls
  BY DEF TInv, IInv, TypeOK, At, Active
<1>2. CASE pc'[c] = "pooled" /\ pc[c] # "pooled"
  <2>1. At("pooled")' \cup At("net") \in SUBSET Active'
    BY <1>1, <1>2 DEF Moves, At, Active, Timed
  <2>2. At("pooled")' \cap At("net") = {}
    BY <1>1, <1>2 DEF Moves, At
  <2>3. Cardinality(At("pooled")' \cup At("net"))
          = Cardinality(At("pooled")') + Cardinality(At("net"))
    <3>1. Cardinality(At("pooled")' \cup At("net"))
            = Cardinality(At("pooled")') + Cardinality(At("net"))
                - Cardinality(At("pooled")' \cap At("net"))
      BY <1>1, FiniteCalls, FS_Union
    <3>2. Cardinality(At("pooled")' \cap At("net")) = 0
      BY <2>2, FS_EmptySet
    <3> QED
      BY <1>1, <3>1, <3>2, FiniteCalls
  <2>4. Cardinality(At("pooled")' \cup At("net")) <= Cardinality(Active')
    BY <1>1, <2>1, FiniteCalls, FS_Subset
  <2>5. Cardinality(Active') <= Limit
    BY DEF Admitted
  <2>6. PoolSize <= Cardinality(At("net"))
    BY <1>1, <1>2, FiniteCalls, LimitIsNat DEF Moves
  <2>7. Cardinality(At("pooled")') <= Limit - PoolSize
    BY <1>1, <2>3, <2>4, <2>5, <2>6, FiniteCalls, LimitIsNat
  <2> QED
    BY <1>1, <2>7, FiniteCalls, LimitIsNat DEF QueueOnlyBeyondPool
<1>3. CASE ~(pc'[c] = "pooled" /\ pc[c] # "pooled")
  <2>1. At("pooled")' \in SUBSET At("pooled")
    BY <1>1, <1>3 DEF Moves, At
  <2>2. Cardinality(At("pooled")') <= Cardinality(At("pooled"))
    BY <1>1, <2>1, FiniteCalls, FS_Subset
  <2> QED
    BY <1>1, <2>2, FiniteCalls, LimitIsNat DEF QueueOnlyBeyondPool
<1> QED
  BY <1>2, <1>3

LEMMA OwnDeadlineKept ==
  ASSUME TInv, OwnDeadline, NEW c \in Calls, Moves(c), UNCHANGED deadline_s
  PROVE  OwnDeadline'
<1>1. pc \in [Calls -> Timed \cup {"idle", "ended"}]
  BY DEF TInv, IInv, TypeOK
<1>2. ASSUME NEW k \in Active'
      PROVE  total'[k] = deadline_s' /\ start'[k] = started'[k]
  <2>1. k \in Calls /\ pc'[k] \in Timed
    BY <1>2 DEF Active
  <2>2. CASE k # c
    BY <2>1, <2>2 DEF Moves, OwnDeadline, Active
  <2>3. CASE k = c
    BY <1>1, <2>1, <2>3 DEF Moves, OwnDeadline, Active, Timed
  <2> QED
    BY <2>2, <2>3
<1> QED
  BY <1>2 DEF OwnDeadline

LEMMA InitMany == BatchInit => MInv
<1> SUFFICES ASSUME BatchInit PROVE MInv
  OBVIOUS
<1>1. TInv
  BY InitInTime DEF BatchInit
<1>2. ManyTypeOK
  <2>1. answer \in [Calls -> Responses \cup {None}]
    BY DEF BatchInit
  <2>2. spent \in Nat /\ status \in {"gathering", "cancelling", "returned", "cancelled"}
    BY DEF BatchInit
  <2> QED
    BY <1>1, <2>1, <2>2 DEF ManyTypeOK, BatchInit, TInv, IInv
<1>3. Active = {} /\ At("pooled") = {}
  BY DEF BatchInit, Init, Active, Timed, At
<1>4. OwnDeadline /\ Admitted /\ QueueOnlyBeyondPool
  BY <1>3, FS_EmptySet, LimitIsNat DEF OwnDeadline, Admitted, QueueOnlyBeyondPool
<1> QED
  BY <1>1, <1>2, <1>4 DEF MInv

LEMMA NextMany == MInv /\ [BatchNext]_manyVars => MInv'
<1> SUFFICES ASSUME MInv, [BatchNext]_manyVars PROVE MInv'
  OBVIOUS
<1>1. TInv' /\ ManyTypeOK'
  BY BatchInTime, BatchTypes DEF MInv
<1>2. CASE UNCHANGED <<pc, outcome, total, start, started>>
  <2>1. Active' = Active /\ At("pooled")' = At("pooled")
    BY <1>2 DEF Active, At
  <2>2. deadline_s' = deadline_s
    BY DEF BatchNext, Admit, Deliver, Work, CancelBatch, Drop, Return, Abort, Close,
       Pass, Over, batchVars, manyVars
  <2> QED
    BY <1>1, <1>2, <2>1, <2>2 DEF MInv, OwnDeadline, Admitted, QueueOnlyBeyondPool
<1>3. ASSUME NEW c \in Calls, Moves(c), UNCHANGED deadline_s
      PROVE  MInv'
  BY <1>1, <1>3, AdmittedKept, QueueKept, OwnDeadlineKept DEF MInv
<1> QED
  BY <1>2, <1>3, Movement DEF MInv

(* The invariant of the batch holds in every reachable state.              *)
THEOREM BatchInvariance == BatchSpec => []MInv
  BY InitMany, NextMany, PTL DEF BatchSpec

(* Every variable stays in its range, for any number of calls: the ledger  *)
(* is never charged a negative amount, whatever a server reports.          *)
THEOREM ManyTypeCorrect == BatchSpec => []ManyTypeOK
<1>1. MInv => ManyTypeOK
  BY DEF MInv
<1> QED
  BY <1>1, BatchInvariance, PTL

(* With a limit no larger than the pool no call ever waits for a           *)
(* connection; with a larger one, only as many calls as exceed it.         *)
THEOREM PoolSized == BatchSpec => []QueueOnlyBeyondPool
<1>1. MInv => QueueOnlyBeyondPool
  BY DEF MInv
<1> QED
  BY <1>1, BatchInvariance, PTL

(* In a batch too no request carries a call further beyond its deadline    *)
(* than OverrunBound allows.                                               *)
THEOREM BatchOverrunBounded == BatchSpec => []OverrunBound
<1>1. MInv => OverrunBound
  BY InTimeBounds DEF MInv
<1> QED
  BY <1>1, BatchInvariance, PTL

(* A call that gives up for want of time has had all of deadline_s since   *)
(* its admission, whatever the calls before it took.                       *)
THEOREM AllowanceIsOwn == BatchSpec => FullAllowance
<1>1. ASSUME MInv, [BatchNext]_manyVars, NEW c \in Calls,
             outcome[c] = None, outcome'[c] = "RetryBudgetExceeded"
      PROVE  now - started'[c] >= deadline_s
  <2>1. outcome[c] # outcome'[c] /\ ~Drop(c)
    BY <1>1, ClientAssumption DEF Drop, End, MInv, TInv, IInv, TypeOK, Outcomes
  <2>2. PICK k \in Calls : Moves(k)
    BY <1>1, <2>1, Movement DEF MInv
  <2>3. k = c /\ pc[c] # "ended"
    BY <2>1, <2>2 DEF Moves
  <2>4. [Next]_vars
    <3>1. \A d \in Calls : ~Drop(d)
      BY <1>1, <2>1 DEF Drop, End, MInv, TInv, IInv, TypeOK
    <3> QED
      BY <1>1, <3>1, ChatStep DEF MInv
  <2>5. HasDeadline(total'[c]) /\ now >= start'[c] + total'[c]
    BY <1>1, <2>3, <2>4, StepJustified DEF Justified, MInv, TInv
  <2>6. total'[c] = deadline_s /\ start'[c] = started'[c]
    BY <1>1, <2>2, <2>3 DEF Moves, MInv, TInv, IInv, TypeOK, OwnDeadline, Active
  <2>7. /\ started'[c] \in Nat /\ now \in Nat /\ total'[c] \in Nat \cup {None}
    BY <1>1, NextMany DEF MInv, TInv, IInv, TypeOK
  <2> QED
    BY <2>5, <2>6, <2>7 DEF HasDeadline
<1>2. MInv /\ [BatchNext]_manyVars =>
        [\A c \in Calls :
           (outcome[c] = None /\ outcome'[c] = "RetryBudgetExceeded")
             => now - started'[c] >= deadline_s]_manyVars
  BY <1>1
<1> QED
  BY <1>2, BatchInvariance, PTL DEF BatchSpec, FullAllowance

-----------------------------------------------------------------------------
(* The money: an answered call has ended, a completion was recorded        *)
(* without an error, the ledger holds what is billable and nothing else,   *)
(* and what is delivered keeps within the budget.                          *)
AnsweredEnded == \A c \in Calls : answer[c] # None => pc[c] = "ended"

DeliveredBillable == Delivered \subseteq Billable

MoneyInv ==
  /\ AnsweredEnded
  /\ DeliveredBillable
  /\ PaidIsRecorded
  /\ DeliveredWithinBudget

(* The same for given answers, so that it can be said of two states.       *)
AnswererIn(ans, c) == IF ans[c].model # None THEN ans[c].model ELSE Model

BillableIn(ans, c) ==
  /\ ans[c] # None
  /\ ans[c].choices = "some"
  /\ RecordError(AnswererIn(ans, c), UsageOf(ans[c])) = None

Price(ans, c) ==
  IF ans[c].usage = None THEN 0 ELSE Cost(AnswererIn(ans, c), ans[c].usage)

WorthOf(ans, S) == SumFunctionOnSet([c \in S |-> Price(ans, c)], S)

LEMMA WorthIsSum ==
  /\ Billable = {c \in Calls : BillableIn(answer, c)}
  /\ Billable' = {c \in Calls : BillableIn(answer', c)}
  /\ Worth(Billable) = WorthOf(answer, Billable)
  /\ Worth(Billable)' = WorthOf(answer', Billable')
  /\ Worth(Delivered) = WorthOf(answer, Delivered)
  /\ Worth(Delivered)' = WorthOf(answer', Delivered')
<1>1. /\ Billable = {c \in Calls : BillableIn(answer, c)}
      /\ Billable' = {c \in Calls : BillableIn(answer', c)}
  BY DEF Billable, BillableIn, Answerer, AnswererIn
<1> QED
  BY <1>1 DEF Worth, WorthOf, SumFunction, PriceOf, Price, Answerer, AnswererIn

(* What record charges for an answer is its price: one without usage is    *)
(* charged for no tokens, which is nothing.                                *)
LEMMA ChargeIsPrice ==
  ASSUME NEW ans, NEW c \in Calls, NEW r \in Responses, ans[c] = r
  PROVE  /\ AnswererIn(ans, c) = ChargedModel(r, Model)
         /\ Price(ans, c) = Cost(ChargedModel(r, Model), UsageOf(r))
         /\ ChargedModel(r, Model) \in Models /\ UsageOf(r) \in UsageShape
<1>1. r \in ResponseShape
  BY ManyAssumption
<1>2. ChargedModel(r, Model) \in Models /\ UsageOf(r) \in UsageShape
  BY <1>1, ManyAssumption DEF ResponseShape, ChargedModel, UsageOf, UsageShape, Tokens
<1>3. AnswererIn(ans, c) = ChargedModel(r, Model)
  BY DEF AnswererIn, ChargedModel
<1>4. ASSUME NEW m \in Models PROVE Cost(m, Tokens(0, 0, 0)) = 0
  <2>1. CASE Prices[m] = None
    BY <2>1 DEF Cost
  <2>2. CASE Prices[m] # None
    <3> DEFINE price == Prices[m]
    <3>1. /\ price.input \in Nat /\ price.output \in Nat
          /\ price.cached \in Nat \cup {None}
      BY <2>2, ManyAssumption DEF PriceShape
    <3>2. CachedRate(price) \in Nat
      BY <3>1 DEF CachedRate
    <3> QED
      BY <2>2, <3>1, <3>2 DEF Cost, cost_usd, Tokens
  <2> QED
    BY <2>1, <2>2
<1> QED
  BY <1>2, <1>3, <1>4 DEF Price, UsageOf

(* The price of an answer that could be recorded is a natural number.      *)
LEMMA PriceIsNat ==
  ASSUME NEW ans \in [Calls -> Responses \cup {None}], NEW c \in Calls,
         BillableIn(ans, c)
  PROVE  Price(ans, c) \in Nat
<1>1. ans[c] \in Responses
  BY DEF BillableIn
<1> QED
  BY <1>1, ChargeIsPrice, CostIsNat DEF BillableIn

(* Of billable answers a part is worth at most the whole.                  *)
LEMMA WorthPart ==
  ASSUME NEW ans \in [Calls -> Responses \cup {None}],
         NEW S \in SUBSET Calls, \A c \in S : BillableIn(ans, c),
         NEW R \in SUBSET S
  PROVE  WorthOf(ans, R) <= WorthOf(ans, S) /\ WorthOf(ans, R) \in Nat
         /\ WorthOf(ans, S) \in Nat
<1> DEFINE f == [c \in S |-> Price(ans, c)]
           g == [c \in R |-> Price(ans, c)]
<1>1. IsFiniteSet(S) /\ IsFiniteSet(R)
  BY FiniteCalls
<1>2. /\ \A x \in S : f[x] \in Nat
      /\ \A x \in R : f[x] \in Nat /\ g[x] = f[x]
  BY PriceIsNat
<1> HIDE DEF f, g
<1>3. SumFunctionOnSet(g, R) = SumFunctionOnSet(f, R)
  BY <1>1, <1>2, SumSame
<1>4. SumFunctionOnSet(f, R) <= SumFunctionOnSet(f, S)
  BY <1>1, <1>2, SumPart
<1>5. SumFunctionOnSet(f, R) \in Nat /\ SumFunctionOnSet(f, S) \in Nat
  BY <1>1, <1>2, SumType
<1> QED
  BY <1>3, <1>4, <1>5 DEF WorthOf, f, g

(* What other answers there are makes no difference to what some are worth.*)
LEMMA WorthSame ==
  ASSUME NEW ans \in [Calls -> Responses \cup {None}],
         NEW S \in SUBSET Calls, \A c \in S : BillableIn(ans, c),
         NEW ans2, \A c \in S : ans2[c] = ans[c]
  PROVE  WorthOf(ans2, S) = WorthOf(ans, S)
<1> DEFINE f == [c \in S |-> Price(ans, c)]
           g == [c \in S |-> Price(ans2, c)]
<1>1. IsFiniteSet(S)
  BY FiniteCalls
<1>2. \A c \in S : f[c] \in Nat /\ g[c] = f[c]
  BY PriceIsNat DEF Price, AnswererIn
<1> HIDE DEF f, g
<1>3. SumFunctionOnSet(g, S) = SumFunctionOnSet(f, S)
  BY <1>1, <1>2, SumSame
<1> QED
  BY <1>3 DEF WorthOf, f, g

(* One more billable answer adds its price.                                *)
LEMMA WorthAdds ==
  ASSUME NEW ans \in [Calls -> Responses \cup {None}],
         NEW S \in SUBSET Calls, NEW c \in Calls \ S,
         \A k \in S \cup {c} : BillableIn(ans, k)
  PROVE  WorthOf(ans, S \cup {c}) = Price(ans, c) + WorthOf(ans, S)
<1> DEFINE f == [k \in S |-> Price(ans, k)]
           g == [k \in S \cup {c} |-> Price(ans, k)]
<1>1. IsFiniteSet(S)
  BY FiniteCalls
<1>2. /\ \A k \in S \cup {c} : g[k] \in Nat
      /\ \A k \in S : f[k] \in Nat /\ g[k] = f[k]
      /\ g[c] = Price(ans, c)
  BY PriceIsNat
<1> HIDE DEF f, g
<1>3. SumFunctionOnSet(g, S \cup {c}) = g[c] + SumFunctionOnSet(g, S)
  BY <1>1, <1>2, SumAdd
<1>4. SumFunctionOnSet(g, S) = SumFunctionOnSet(f, S)
  BY <1>1, <1>2, SumSame
<1> QED
  BY <1>2, <1>3, <1>4 DEF WorthOf, f, g

(* A step that answers nobody and completes no call keeps the sums.        *)
LEMMA UnansweredKept ==
  ASSUME TInv, MoneyInv, UNCHANGED <<answer, spent>>,
         \A c \in Calls :
            /\ outcome'[c] = outcome[c] \/ outcome'[c] # "Completion"
            /\ pc[c] = "ended" => pc'[c] = "ended" /\ outcome'[c] = outcome[c]
  PROVE  MoneyInv'
<1>1. Billable' = Billable
  BY DEF Billable, Answerer
<1>2. Delivered' = Delivered
  <2>1. \A c \in Calls : outcome[c] = "Completion" => pc[c] = "ended"
    BY ClientAssumption DEF TInv, IInv, Fresh, Outcomes
  <2> QED
    BY <2>1 DEF Delivered
<1>3. Worth(Billable)' = Worth(Billable) /\ Worth(Delivered)' = Worth(Delivered)
  BY <1>1, <1>2, WorthIsSum
<1> QED
  BY <1>1, <1>2, <1>3 DEF MoneyInv, AnsweredEnded, DeliveredBillable, PaidIsRecorded,
     DeliveredWithinBudget

(* An answer that can be recorded adds as much to the ledger as to what is *)
(* billable, any other answer nothing to either; a completion has just     *)
(* found the ledger within the budget.                                     *)
LEMMA DeliverKept ==
  ASSUME TInv, ManyTypeOK, ManyTypeOK', MoneyInv,
         NEW c \in Calls, NEW r \in Responses, Deliver(c, r)
  PROVE  MoneyInv'
<1> DEFINE model == ChargedModel(r, Model)
           error == RecordError(model, UsageOf(r))
<1>1. /\ pc[c] = "net" /\ pc \in [Calls -> Timed \cup {"idle", "ended"}]
      /\ pc' = [pc EXCEPT ![c] = "ended"] /\ answer' = [answer EXCEPT ![c] = r]
      /\ answer \in [Calls -> Responses \cup {None}]
      /\ answer' \in [Calls -> Responses \cup {None}]
      /\ \A k \in Calls \ {c} : outcome'[k] = outcome[k]
  BY DEF Deliver, Finish, End, TInv, IInv, TypeOK, ManyTypeOK
<1>2. /\ spent' = IF ShapeError(r) # None \/ error # None THEN spent
                 ELSE spent + Cost(model, UsageOf(r))
      /\ outcome'[c] = IF ShapeError(r) # None THEN ShapeError(r)
                       ELSE IF error # None \/ OverBudget(spent') THEN "LedgerError"
                       ELSE "Completion"
  BY DEF Deliver, Charged
<1>3. answer[c] = None /\ answer'[c] = r /\ c \notin Billable
  BY <1>1 DEF MoneyInv, AnsweredEnded, Billable
<1>4. AnsweredEnded'
  BY <1>1, <1>3 DEF MoneyInv, AnsweredEnded
<1>5. /\ \A k \in Billable : BillableIn(answer, k) /\ answer'[k] = answer[k]
      /\ Billable \subseteq Calls
  BY <1>1, <1>3, WorthIsSum
<1>6. BillableIn(answer', c) <=> (ShapeError(r) = None /\ error = None)
  <2>1. r \in ResponseShape /\ r # None
    BY ManyAssumption
  <2>2. ShapeError(r) = None <=> r.choices = "some"
    BY <2>1, ClientAssumption DEF ShapeError, ResponseShape, Outcomes
  <2> QED
    BY <1>3, <2>1, <2>2, ChargeIsPrice DEF BillableIn
<1>7. Price(answer', c) = Cost(model, UsageOf(r))
  BY <1>3, ChargeIsPrice
<1> HIDE DEF model, error
<1>8. PaidIsRecorded' /\ spent' \in Nat
  <2>1. spent = WorthOf(answer, Billable) /\ spent \in Nat
    BY WorthIsSum DEF MoneyInv, PaidIsRecorded, ManyTypeOK
  <2>2. WorthOf(answer', Billable) = WorthOf(answer, Billable)
    BY <1>1, <1>5, WorthSame
  <2>3. ASSUME BillableIn(answer', c) PROVE spent' = WorthOf(answer', Billable')
    <3>1. Billable' = Billable \cup {c}
      BY <1>1, <1>3, <1>5, <2>3, WorthIsSum DEF BillableIn, AnswererIn
    <3>2. \A k \in Billable \cup {c} : BillableIn(answer', k)
      BY <3>1, WorthIsSum
    <3>3. WorthOf(answer', Billable') = Price(answer', c) + WorthOf(answer', Billable)
      BY <1>1, <1>3, <1>5, <3>1, <3>2, WorthAdds
    <3>4. spent' = spent + Price(answer', c)
      BY <1>2, <1>6, <1>7, <2>3
    <3>5. Price(answer', c) \in Nat
      BY <1>1, <2>3, PriceIsNat
    <3> QED
      BY <2>1, <2>2, <3>3, <3>4, <3>5
  <2>4. ASSUME ~BillableIn(answer', c) PROVE spent' = WorthOf(answer', Billable')
    <3>1. Billable' = Billable
      BY <1>1, <1>3, <1>5, <2>4, WorthIsSum DEF BillableIn, AnswererIn
    <3>2. spent' = spent
      BY <1>2, <1>6, <2>4
    <3> QED
      BY <2>1, <2>2, <3>1, <3>2
  <2>5. spent' = WorthOf(answer', Billable')
    BY <2>3, <2>4
  <2> QED
    BY <2>5, WorthIsSum DEF PaidIsRecorded, ManyTypeOK
<1>9. Delivered' \subseteq Delivered \cup {c}
  BY <1>1 DEF Delivered
<1>10. DeliveredBillable'
  <2>1. ASSUME c \in Delivered' PROVE BillableIn(answer', c)
    <3>1. ShapeError(r) = None
      BY <1>2, <2>1 DEF Delivered, ShapeError
    <3>2. error = None
      BY <1>2, <2>1, <3>1 DEF Delivered
    <3> QED
      BY <1>6, <3>1, <3>2
  <2>2. Billable \subseteq Billable'
    BY <1>1, <1>3, <1>5, WorthIsSum DEF BillableIn, AnswererIn
  <2> QED
    BY <1>9, <2>1, <2>2, WorthIsSum DEF MoneyInv, DeliveredBillable
<1>11. DeliveredWithinBudget'
  <2>1. ASSUME c \in Delivered', BudgetUsd # None
        PROVE  WorthOf(answer', Delivered') <= BudgetUsd
    <3>1. ~OverBudget(spent')
      BY <1>2, <2>1 DEF Delivered, ShapeError
    <3>2. spent' <= BudgetUsd
      BY <1>8, <2>1, <3>1, ManyAssumption DEF OverBudget
    <3>3. /\ WorthOf(answer', Delivered') <= WorthOf(answer', Billable')
          /\ WorthOf(answer', Delivered') \in Nat /\ WorthOf(answer', Billable') \in Nat
      BY <1>1, <1>10, WorthPart, WorthIsSum DEF DeliveredBillable
    <3>4. WorthOf(answer', Billable') = spent'
      BY <1>8, WorthIsSum DEF PaidIsRecorded
    <3> QED
      BY <1>8, <2>1, <3>2, <3>3, <3>4, ManyAssumption
  <2>2. ASSUME c \notin Delivered', BudgetUsd # None
        PROVE  WorthOf(answer', Delivered') <= BudgetUsd
    <3>1. Delivered \subseteq Billable
      BY DEF MoneyInv, DeliveredBillable
    <3>2. Delivered' = Delivered
      BY <1>1, <1>3, <2>2, <3>1 DEF Delivered
    <3>3. WorthOf(answer', Delivered) = Worth(Delivered)
      <4>1. /\ Delivered \in SUBSET Calls
            /\ \A k \in Delivered : BillableIn(answer, k) /\ answer'[k] = answer[k]
        BY <1>5, <3>1
      <4> QED
        BY <1>1, <4>1, WorthSame, WorthIsSum
    <3> QED
      BY <2>2, <3>2, <3>3, WorthIsSum DEF MoneyInv, DeliveredWithinBudget
  <2>3. BudgetUsd # None => WorthOf(answer', Delivered') <= BudgetUsd
    BY <2>1, <2>2
  <2> QED
    BY <2>3, WorthIsSum DEF DeliveredWithinBudget
<1> QED
  BY <1>4, <1>8, <1>10, <1>11 DEF MoneyInv

LEMMA InitMoney == BatchInit => MoneyInv
<1> SUFFICES ASSUME BatchInit PROVE MoneyInv
  OBVIOUS
<1>1. Billable = {} /\ Delivered = {}
  <2>1. \A c \in Calls : answer[c] = None /\ outcome[c] = None
    BY DEF BatchInit, Init
  <2> QED
    BY <2>1, ClientAssumption DEF Billable, Delivered, Outcomes
<1>2. Worth(Billable) = 0 /\ Worth(Delivered) = 0
  <2>1. WorthOf(answer, {}) = 0
    BY SumEmpty DEF WorthOf
  <2> QED
    BY <1>1, <2>1, WorthIsSum
<1> QED
  BY <1>1, <1>2, ManyAssumption DEF BatchInit, MoneyInv, AnsweredEnded, DeliveredBillable,
     PaidIsRecorded, DeliveredWithinBudget

LEMMA NextMoney == MInv /\ MoneyInv /\ [BatchNext]_manyVars => MoneyInv'
<1> SUFFICES ASSUME MInv, MoneyInv, [BatchNext]_manyVars PROVE MoneyInv'
  OBVIOUS
<1>1. TInv /\ ManyTypeOK /\ ManyTypeOK'
  BY BatchTypes DEF MInv
<1>2. ASSUME NEW c \in Calls, NEW r \in Responses, Deliver(c, r) PROVE MoneyInv'
  BY <1>1, <1>2, DeliverKept
<1>3. ASSUME NEW c \in Calls, Admit(c) \/ Work(c) \/ Drop(c) PROVE MoneyInv'
  <2>1. UNCHANGED <<answer, spent>>
    BY <1>3 DEF Admit, Work, Drop, batchVars
  <2>2. Moves(c)
    BY <1>1, <1>3, AdmitMoves, OtherMoves
  <2>3. outcome'[c] = outcome[c] \/ outcome'[c] # "Completion"
    BY <1>1, <1>3 DEF Admit, Begin, Reject, Work, Drop, Progress, Advance, Timer, Grant, Proceed,
       Refuse, Break, Expire, Wake, Attempt, Fail, End, TInv, IInv, TypeOK
  <2> QED
    BY <1>1, <2>1, <2>2, <2>3, UnansweredKept DEF Moves
<1>4. CASE \/ CancelBatch \/ Return \/ Abort \/ Close \/ Pass \/ Over
           \/ UNCHANGED manyVars
  <2>1. UNCHANGED <<answer, spent, pc, outcome>>
    BY <1>4 DEF CancelBatch, Return, Abort, Close, Pass, Over, aclose, Tick, vars, callVars,
       batchVars, manyVars
  <2> QED
    BY <1>1, <2>1, UnansweredKept
<1> QED
  BY <1>2, <1>3, <1>4 DEF BatchNext

(* The completions of a batch are bought within its budget, however many   *)
(* calls share it, whatever models answer at whatever prices and in        *)
(* whatever order their answers are charged.                               *)
THEOREM DeliveriesAfforded == BatchSpec => []DeliveredWithinBudget
<1>1. MoneyInv => DeliveredWithinBudget
  BY DEF MoneyInv
<1> QED
  BY <1>1, InitMoney, NextMoney, BatchInvariance, PTL DEF BatchSpec

(* The ledger's total is the price of every answer of a batch that can be  *)
(* recorded, each of them once, also of those that end as a failure, and   *)
(* of nothing else.                                                        *)
THEOREM SpentRegardless == BatchSpec => []PaidIsRecorded
<1>1. MoneyInv => PaidIsRecorded
  BY DEF MoneyInv
<1> QED
  BY <1>1, InitMoney, NextMoney, BatchInvariance, PTL DEF BatchSpec

-----------------------------------------------------------------------------
(* The queue: until the batch is cancelled the calls that have been        *)
(* admitted come before those that have not, and on a punctual loop a call *)
(* under way was admitted within the waves before it.                      *)
InTurn ==
  status = "gathering" =>
    \A c \in Calls : pc[c] # "idle" => \A d \in 1 .. (c - 1) : pc[d] # "idle"

StartsInTurn ==
  (Lag = 0 /\ Limit > 0 /\ Untrickled) =>
    \A c \in Active : started[c] <= ((c - 1) \div Limit) * CallTime

QueueInv == InTurn /\ StartsInTurn /\ QueueBound

LEMMA CallTimeIsNat == ManyTypeOK => CallTime \in Nat
<1> SUFFICES ASSUME ManyTypeOK PROVE CallTime \in Nat
  OBVIOUS
<1>1. /\ (MaxRetries + 1) * Request \in Nat
      /\ MaxRetries * Pause \in Nat
  <2>1. MaxRetries + 1 \in Nat /\ Pause \in Nat
    BY Sizes DEF Pause
  <2> QED
    BY <2>1, Sizes, Products
<1> DEFINE retries == (MaxRetries + 1) * Request + MaxRetries * Pause
<1>3. retries \in Nat
  BY <1>1
<1> HIDE DEF retries
<1>4. ASSUME HasDeadline(deadline_s)
      PROVE  deadline_s + (Operations - 1) * Least(TimeoutS, deadline_s) \in Nat
  <2>1. /\ deadline_s \in Nat /\ Operations - 1 \in Nat
        /\ Least(TimeoutS, deadline_s) \in Nat
    BY <1>4, Sizes, ClientAssumption DEF ManyTypeOK, HasDeadline, Least
  <2>2. (Operations - 1) * Least(TimeoutS, deadline_s) \in Nat
    BY <2>1, Products
  <2> QED
    BY <2>1, <2>2
<1> QED
  BY <1>3, <1>4 DEF CallTime, Least, retries

(* What has trickled stays so.                                             *)
LEMMA StillUntrickled ==
  ASSUME MInv, [BatchNext]_manyVars, Untrickled'
  PROVE  Untrickled
<1>1. trickled \in [Calls -> BOOLEAN]
  BY DEF MInv, TInv, IInv, TypeOK
<1>2. ASSUME NEW c \in Calls,
             Admit(c) \/ (\E r \in Responses : Deliver(c, r)) \/ Work(c) \/ Drop(c)
      PROVE  UNCHANGED trickled \/ Proceed(c)
  BY <1>2 DEF Admit, Begin, Reject, Deliver, Finish, Work, Drop, Progress, Advance, Timer, Grant,
     Refuse, Break, Expire, Wake, Attempt, Fail, netVars
<1>3. CASE \/ CancelBatch \/ Return \/ Abort \/ Close \/ Pass \/ Over
           \/ UNCHANGED manyVars
  BY <1>3 DEF CancelBatch, Return, Abort, Close, Pass, Over, manyVars, aclose, Tick,
     vars, callVars, netVars, Untrickled
<1>4. ASSUME NEW c \in Calls, Proceed(c) PROVE Untrickled
  <2>1. \A k \in Calls : trickled[k] => trickled'[k]
    BY <1>1, <1>4 DEF Proceed
  <2> QED
    BY <2>1 DEF Untrickled
<1>5. CASE UNCHANGED trickled
  BY <1>5 DEF Untrickled
<1> QED
  BY <1>2, <1>3, <1>4, <1>5 DEF BatchNext

(* On a punctual loop and while nothing trickles no call under way has     *)
(* been under way for longer.                                              *)
WithinCallTime ==
  (Lag = 0 /\ Untrickled) => \A c \in Active : now - started[c] <= CallTime

LEMMA ActiveTime == MInv => WithinCallTime
<1> SUFFICES ASSUME MInv, Lag = 0, Untrickled, NEW c \in Active
             PROVE  now - started[c] <= CallTime
  BY DEF WithinCallTime
<1> DEFINE retries == (MaxRetries + 1) * Request + MaxRetries * Pause
<1>1. now - started[c] <= retries
  BY InTimeCallBound DEF MInv, CallBound, Untrickled, Active
<1> HIDE DEF retries
<1>2. ASSUME HasDeadline(deadline_s)
      PROVE  now - started[c]
               <= deadline_s + (Operations - 1) * Least(TimeoutS, deadline_s)
  <2>1. total[c] = deadline_s /\ start[c] = started[c]
    BY DEF MInv, OwnDeadline
  <2>2. now <= start[c] + total[c] + Lag * Operations
                 + (Operations - 1) * Least(TimeoutS, total[c])
    <3>1. ~Trickles(c)
      BY DEF MInv, TInv, InTime, Trickles, Untrickled, Active
    <3> QED
      BY <1>2, <2>1, <3>1, InTimeBounds DEF MInv, OverrunBound
  <2>3. /\ deadline_s \in Nat /\ Operations - 1 \in Nat
        /\ Least(TimeoutS, deadline_s) \in Nat
    BY <1>2, Sizes, ClientAssumption DEF MInv, ManyTypeOK, HasDeadline, Least
  <2>4. (Operations - 1) * Least(TimeoutS, deadline_s) \in Nat /\ Lag * Operations = 0
    BY <2>3, Sizes, Products
  <2>5. now \in Nat /\ started[c] \in Nat
    BY DEF MInv, TInv, IInv, TypeOK, Active
  <2> QED
    BY <2>1, <2>2, <2>3, <2>4, <2>5
<1> QED
  BY <1>1, <1>2 DEF CallTime, Least, retries

(* While a call waits and the clock goes on, every permit is held by a     *)
(* call before it, so one of them is Limit places before it or more.       *)
LEMMA WaveBefore ==
  ASSUME MInv, QueueInv, Pass, Lag = 0, Limit > 0,
         NEW c \in Calls, pc[c] = "idle"
  PROVE  \E j \in Active : j \in Nat \ {0} /\ j + Limit <= c
<1>1. /\ status = "gathering" /\ Limit \in Nat \ {0} /\ c \in Nat \ {0}
      /\ Calls = 1 .. Cardinality(Calls) /\ Cardinality(Calls) \in Nat
      /\ pc \in [Calls -> Timed \cup {"idle", "ended"}]
  BY LimitIsNat, ManyAssumption, FiniteCalls DEF Pass, MInv, TInv, IInv, TypeOK
<1>2. PICK d \in Calls : d <= c /\ pc[d] = "idle" /\ \A e \in 1 .. (d - 1) : pc[e] # "idle"
  <2> DEFINE Idle == {e \in Calls : pc[e] = "idle"}
  <2>1. \E d \in Idle : \A e \in Idle : ~(<<e, d>> \in OpToRel(<, Nat))
    <3>1. Idle \in SUBSET Nat /\ c \in Idle
      BY <1>1
    <3> HIDE DEF Idle
    <3> QED
      BY <3>1, NatLessThanWellFounded, WFMin
  <2>2. PICK d \in Idle : \A e \in Idle : ~(<<e, d>> \in OpToRel(<, Nat))
    BY <2>1
  <2>3. \A e \in Idle : ~(e < d)
    <3>1. Idle \in SUBSET Nat
      BY <1>1
    <3> HIDE DEF Idle
    <3> QED
      BY <2>2, <3>1 DEF OpToRel
  <2>4. d \in Nat \ {0} /\ d <= c
    BY <1>1, <2>3
  <2>5. ASSUME NEW e \in 1 .. (d - 1) PROVE pc[e] # "idle"
    BY <1>1, <2>3, <2>4
  <2> QED
    BY <2>4, <2>5
<1>3. ~PermitFree
  BY <1>1, <1>2 DEF Pass, Admissible
<1>4. Active \subseteq 1 .. (d - 1)
  <2>1. ASSUME NEW e \in Active PROVE e \in 1 .. (d - 1)
    <3>1. e \in Calls /\ pc[e] # "idle" /\ e \in Nat /\ e >= 1
      BY <1>1 DEF Active, Timed
    <3>2. ~(d < e)
      BY <1>1, <1>2, <3>1 DEF QueueInv, InTurn
    <3> QED
      BY <1>1, <1>2, <3>1, <3>2
  <2> QED
    BY <2>1
<1>5. Cardinality(Active) >= Limit
  <2>1. Cardinality(Active) \in Nat
    BY FiniteCalls DEF Active
  <2> QED
    BY <1>1, <1>3, <2>1 DEF PermitFree, InFlight
<1>6. \E j \in Active : j + Limit <= (d - 1) + 1
  <2>1. d - 1 \in Nat
    BY <1>1
  <2> QED
    BY <1>1, <1>4, <1>5, <2>1, Pigeonhole
<1> QED
  BY <1>1, <1>2, <1>4, <1>6

LEMMA PassInTurn ==
  ASSUME MInv, MInv', QueueInv, Pass
  PROVE  QueueInv'
<1>1. /\ UNCHANGED <<pc, started, trickled, deadline_s, status>> /\ now' = now + 1
      /\ Untrickled' = Untrickled /\ now \in Nat /\ started \in [Calls -> Nat]
  BY DEF Pass, Tick, batchVars, callVars, budgetVars, netVars, MInv, TInv, IInv, TypeOK,
     Untrickled
<1>2. CallTime' = CallTime /\ CallTime \in Nat /\ Active' = Active
  BY <1>1, CallTimeIsNat DEF CallTime, Active, MInv
<1>3. InTurn' /\ StartsInTurn'
  BY <1>1, <1>2 DEF QueueInv, InTurn, StartsInTurn
<1>4. ASSUME Lag = 0, Limit > 0, Untrickled, NEW c \in Calls, pc[c] = "idle"
      PROVE  now + 1 <= ((c - 1) \div Limit) * CallTime
  <2>1. PICK j \in Active : j \in Nat \ {0} /\ j + Limit <= c
    BY <1>4, WaveBefore
  <2>2. (MInv => WithinCallTime)'
    BY ActiveTime, PTL
  <2>3. now + 1 <= started[j] + CallTime
    <3>1. now + 1 - started[j] <= CallTime /\ started[j] \in Nat
      BY <1>1, <1>2, <1>4, <2>1, <2>2 DEF WithinCallTime, Active
    <3> QED
      BY <1>1, <1>2, <3>1
  <2>4. started[j] <= ((j - 1) \div Limit) * CallTime
    BY <1>4, <2>1 DEF QueueInv, StartsInTurn
  <2> DEFINE p == (j - 1) \div Limit
             q == (c - 1) \div Limit
  <2>5. p \in Nat /\ q \in Nat /\ p + 1 <= q
    <3>1. /\ j - 1 \in Nat /\ c - 1 \in Nat /\ Limit \in Nat \ {0}
          /\ (j - 1) + Limit <= c - 1
      BY <1>4, <2>1, LimitIsNat, ManyAssumption, FiniteCalls
    <3> QED
      BY <3>1, Division, NextWave
  <2> HIDE DEF p, q
  <2>6. /\ (p + 1) * CallTime = p * CallTime + CallTime
        /\ (p + 1) * CallTime <= q * CallTime
        /\ p * CallTime \in Nat /\ q * CallTime \in Nat
    <3>1. p + 1 \in Nat
      BY <2>5
    <3> QED
      BY <1>2, <2>5, <3>1, Products
  <2>7. started[j] <= p * CallTime /\ started[j] \in Nat
    BY <1>1, <2>1, <2>4 DEF p, Active
  <2>8. now + 1 <= q * CallTime
    BY <1>1, <1>2, <2>3, <2>6, <2>7
  <2> QED
    BY <2>8 DEF q
<1>5. QueueBound'
  BY <1>1, <1>2, <1>4 DEF QueueBound
<1> QED
  BY <1>3, <1>5 DEF QueueInv

LEMMA CallInTurn ==
  ASSUME MInv, QueueInv, NEW c \in Calls,
         Admit(c) \/ (\E r \in Responses : Deliver(c, r)) \/ Work(c) \/ Drop(c)
  PROVE  QueueInv'
<1>1. Moves(c)
  BY AdmitMoves, OtherMoves DEF MInv
<1>2. /\ pc \in [Calls -> Timed \cup {"idle", "ended"}]
      /\ outcome \in [Calls -> Outcomes \cup {None}]
  BY DEF MInv, TInv, IInv, TypeOK
<1>3. UNCHANGED <<deadline_s, status, now>>
  <2>1. CASE Admit(c)
    BY <2>1 DEF Admit, Begin, Reject, batchVars
  <2>2. CASE Work(c)
    BY <2>2 DEF Work, batchVars, Progress, Advance, Timer, Grant, Proceed, Refuse, Break, Expire,
       Wake, Fail
  <2>3. CASE Drop(c) \/ \E r \in Responses : Deliver(c, r)
    BY <2>3 DEF Drop, Deliver, Finish, batchVars
  <2> QED
    BY <2>1, <2>2, <2>3
<1>4. pc'[c] # "idle"
  BY <1>2 DEF Admit, Begin, Reject, Work, Drop, Deliver, Finish, Progress, Advance, Timer,
     Grant, Proceed, Refuse, Break, Expire, Wake, Attempt, Fail, End
<1>5. /\ pc[c] = "idle" =>
            /\ status = "gathering" => \A d \in 1 .. (c - 1) : pc[d] # "idle"
            /\ pc'[c] \in Timed => status = "gathering" /\ started'[c] = now
      /\ pc[c] = "ended" => pc'[c] = "ended"
  <2>1. CASE Admit(c)
    BY <1>1, <1>2, <2>1 DEF Admit, Admissible, Moves
  <2>2. CASE Work(c) \/ \E r \in Responses : Deliver(c, r)
    <3>1. pc[c] \in Timed
      BY <2>2 DEF Work, Deliver, Finish, Progress, Advance, Timer,
         Refuse, Break, Expire, Wake, Timed, InRequest
    <3> QED
      BY <3>1 DEF Timed
  <2>3. CASE Drop(c)
    BY <1>2, <2>3 DEF Drop, End, Timed
  <2> QED
    BY <2>1, <2>2, <2>3
<1>6. CallTime' = CallTime
  BY <1>3 DEF CallTime
<1>7. Untrickled' => Untrickled
  BY StillUntrickled DEF BatchNext
<1>8. InTurn'
  <2>1. ASSUME status = "gathering", NEW k \in Calls, pc'[k] # "idle", NEW d \in 1 .. (k - 1)
        PROVE  pc'[d] # "idle"
    <3>1. d \in Calls
      BY ManyAssumption, FiniteCalls
    <3>2. pc[d] # "idle"
      BY <1>1, <1>5, <2>1 DEF Moves, QueueInv, InTurn
    <3> QED
      BY <1>1, <1>4, <3>1, <3>2 DEF Moves
  <2> QED
    BY <1>3, <2>1 DEF InTurn
<1>9. StartsInTurn'
  <2>1. ASSUME Lag = 0, Limit > 0, Untrickled', NEW k \in Active'
        PROVE  started'[k] <= ((k - 1) \div Limit) * CallTime
    <3>1. k \in Calls /\ pc'[k] \in Timed
      BY DEF Active
    <3>2. CASE k = c /\ pc[c] = "idle"
      BY <1>5, <1>7, <2>1, <3>1, <3>2 DEF QueueInv, QueueBound
    <3>3. CASE k # c \/ pc[c] # "idle"
      <4>1. k \in Active /\ started'[k] = started[k]
        BY <1>1, <1>2, <1>5, <3>1, <3>3 DEF Moves, Active, Timed
      <4> QED
        BY <1>7, <2>1, <4>1 DEF QueueInv, StartsInTurn
    <3> QED
      BY <3>2, <3>3
  <2> QED
    BY <1>6, <2>1 DEF StartsInTurn
<1>10. QueueBound'
  BY <1>1, <1>3, <1>4, <1>6, <1>7 DEF QueueInv, QueueBound, Moves
<1> QED
  BY <1>8, <1>9, <1>10 DEF QueueInv

LEMMA InitQueue == BatchInit => QueueInv
<1> SUFFICES ASSUME BatchInit PROVE QueueInv
  OBVIOUS
<1>1. InTurn /\ StartsInTurn
  BY DEF BatchInit, Init, InTurn, StartsInTurn, Active, Timed
<1>2. ASSUME Limit > 0, NEW c \in Calls
      PROVE  now <= ((c - 1) \div Limit) * CallTime
  <2>1. CallTime \in Nat /\ now = 0
    BY InitMany, CallTimeIsNat DEF MInv, BatchInit, Init
  <2>2. c - 1 \in Nat /\ Limit \in Nat \ {0}
    BY <1>2, LimitIsNat, ManyAssumption, FiniteCalls
  <2>3. (c - 1) \div Limit \in Nat
    BY <2>2, Division
  <2>4. ((c - 1) \div Limit) * CallTime \in Nat
    BY <2>1, <2>3, Products
  <2> QED
    BY <2>1, <2>4
<1>3. QueueBound
  BY <1>2 DEF QueueBound
<1> QED
  BY <1>1, <1>3 DEF QueueInv

LEMMA NextQueue == MInv /\ QueueInv /\ [BatchNext]_manyVars => QueueInv'
<1> SUFFICES ASSUME MInv, QueueInv, [BatchNext]_manyVars PROVE QueueInv'
  OBVIOUS
<1>1. MInv'
  BY NextMany
<1>2. CASE CancelBatch \/ Return \/ Abort \/ Close \/ Over \/ UNCHANGED manyVars
  <2>1. /\ UNCHANGED <<pc, started, trickled, deadline_s, now>>
        /\ status' = "gathering" => status = "gathering"
    BY <1>2 DEF CancelBatch, Return, Abort, Close, Over, aclose, vars, callVars, budgetVars,
       netVars, batchVars, manyVars
  <2>2. Active' = Active /\ CallTime' = CallTime
    BY <2>1 DEF Active, CallTime
  <2> QED
    BY <2>1, <2>2 DEF QueueInv, InTurn, StartsInTurn, QueueBound, Untrickled
<1> QED
  BY <1>1, <1>2, CallInTurn, PassInTurn DEF BatchNext

(* On a punctual loop, and until a request has trickled, no call waits for *)
(* its admission for longer than the calls before it take, Limit at a      *)
(* time, however many calls there are and however each of them fares.      *)
THEOREM QueueBounded == BatchSpec => []QueueBound
<1>1. QueueInv => QueueBound
  BY DEF QueueInv
<1> QED
  BY <1>1, InitQueue, NextQueue, BatchInvariance, PTL DEF BatchSpec

-----------------------------------------------------------------------------
(* The refinement of Batch.  Only a cancellation drops an item.            *)
NoneDropped ==
  status \in {"gathering", "returned"} => \A c \in Calls : outcome[c] # "CancelledError"

LEMMA SameCardinality == \A S : B!Cardinality(S) = Cardinality(S)
  BY DEF Cardinality, B!Cardinality

BFate == [c \in Calls |-> Fate(c)]

LEMMA ItemsAreCalls == B!Items = Calls
  BY ManyAssumption DEF B!Items

LEMMA ActiveInFlight == ManyTypeOK => B!InFlight = Active
<1> SUFFICES ASSUME ManyTypeOK PROVE B!InFlight = Active
  OBVIOUS
<1>1. \A c \in Calls : pc[c] \in Timed \cup {"idle", "ended"}
  BY DEF ManyTypeOK, TypeOK
<1>2. \A c \in Calls : BFate[c] = "inflight" <=> pc[c] \in Timed
  BY <1>1 DEF BFate, Fate, Timed
<1>3. B!InFlight = {c \in Calls : BFate[c] = "inflight"}
  BY ItemsAreCalls DEF B!InFlight, BFate
<1> QED
  BY <1>2, <1>3 DEF Active

(* While the batch has not returned, its caller has nothing of it.         *)
LEMMA ReplyKept ==
  ASSUME status # "returned", status' # "returned"
  PROVE  Reply' = Reply
  BY DEF Reply

(* One call has changed its state and its outcome, or nothing has          *)
Alone(c) ==
  \A k \in Calls \ {c} : pc'[k] = pc[k] /\ outcome'[k] = outcome[k]

LEMMA OneFate ==
  ASSUME NEW c \in Calls, Alone(c)
  PROVE  BFate' = [BFate EXCEPT ![c] = Fate(c)']
<1>1. \A k \in Calls \ {c} : Fate(k)' = Fate(k)
  BY DEF Alone, Fate
<1> QED
  BY <1>1 DEF BFate

(* What an admission, an answer and any other step of a call come to       *)
LEMMA AdmitEnds ==
  ASSUME TInv, ManyTypeOK, NEW c \in Calls, Admit(c)
  PROVE  /\ pc[c] = "idle" /\ Alone(c)
         /\ \/ pc'[c] \in Timed
            \/ /\ pc'[c] = "ended"
               /\ outcome'[c] \in {"RetryBudgetExceeded", "last_error", "LLMError", "ValueError"}
<1>1. /\ pc \in [Calls -> Timed \cup {"idle", "ended"}]
      /\ outcome \in [Calls -> Outcomes \cup {None}]
  BY DEF TInv, IInv, TypeOK
<1>2. pc[c] = "idle"
  BY DEF Admit, Admissible
<1>3. CASE Begin(c, deadline_s, DeadlineAge)
  BY <1>1, <1>2, <1>3 DEF Begin, Attempt, End, Timed, Alone
<1>4. CASE Reject(c)
  BY <1>1, <1>2, <1>4 DEF Reject, End, Alone
<1> QED
  BY <1>3, <1>4 DEF Admit

LEMMA DeliverEnds ==
  ASSUME TInv, ManyTypeOK, NEW c \in Calls, NEW r \in Responses, Deliver(c, r)
  PROVE  /\ pc[c] \in Timed /\ Alone(c)
         /\ pc'[c] = "ended"
         /\ outcome'[c] \in {"Completion", "ResponseShapeError", "ParseError", "LedgerError"}
<1>1. /\ pc \in [Calls -> Timed \cup {"idle", "ended"}]
      /\ outcome \in [Calls -> Outcomes \cup {None}]
  BY DEF TInv, IInv, TypeOK
<1>2. Finish(c)
  BY DEF Deliver
<1> QED
  BY <1>1, <1>2 DEF Finish, End, Timed, Alone

LEMMA WorkEnds ==
  ASSUME TInv, ManyTypeOK, NEW c \in Calls, Work(c)
  PROVE  /\ pc[c] \in Timed /\ Alone(c)
         /\ \/ pc'[c] \in Timed
            \/ /\ pc'[c] = "ended"
               /\ outcome'[c] \in {"RetryBudgetExceeded", "last_error"}
<1>1. /\ pc \in [Calls -> Timed \cup {"idle", "ended"}]
      /\ outcome \in [Calls -> Outcomes \cup {None}]
  BY DEF TInv, IInv, TypeOK
<1>2. ASSUME NEW f, Fail(c, f)
      PROVE  /\ Alone(c)
             /\ \/ pc'[c] \in Timed
                \/ /\ pc'[c] = "ended"
                   /\ outcome'[c] \in {"RetryBudgetExceeded", "last_error"}
  BY <1>1, <1>2 DEF Fail, End, Timed, Alone
<1>3. CASE Grant(c) \/ Proceed(c)
  BY <1>1, <1>3 DEF Grant, Proceed, Timed, Alone
<1>4. CASE Wake(c)
  BY <1>1, <1>4 DEF Wake, Attempt, End, Timed, Alone
<1> QED
  BY <1>2, <1>3, <1>4
     DEF Work, Progress, Advance, Timer, Refuse, Break, Expire, InRequest, Timed

(* Each step of the batch is a step of Batch or changes nothing of it.     *)
LEMMA AdmitSimulates ==
  ASSUME MInv, NEW c \in Calls, Admit(c)
  PROVE  B!Admit(c) \/ B!AtOnce(c)
<1>1. TInv /\ ManyTypeOK
  BY DEF MInv
<1>2. /\ status = "gathering" /\ UNCHANGED status
      /\ \A d \in 1 .. (c - 1) : pc[d] # "idle"
      /\ Cardinality(Active) < Limit
  BY DEF Admit, Admissible, PermitFree, InFlight, batchVars
<1>3. BFate' = [BFate EXCEPT ![c] = Fate(c)']
  BY <1>1, AdmitEnds, OneFate
<1>4. Fate(c) = "queued" /\ Fate(c)' \in {"inflight", "failed"}
  BY <1>1, AdmitEnds DEF Fate, Timed
<1>5. Reply' = Reply
  BY <1>2, ReplyKept
<1>6. \A d \in 1 .. (c - 1) : d \in Calls /\ BFate[d] # "queued"
  <2>1. ASSUME NEW d \in 1 .. (c - 1) PROVE d \in Calls
    <3>1. Calls = 1 .. Cardinality(Calls) /\ Cardinality(Calls) \in Nat
      BY ManyAssumption, FS_CardinalityType
    <3> QED
      BY <3>1
  <2> QED
    BY <1>2, <2>1 DEF BFate, Fate
<1>7. B!Admissible(c)
  BY <1>1, <1>2, <1>4, <1>6, ActiveInFlight, SameCardinality DEF B!Admissible, BFate
<1>8. CASE Fate(c)' = "inflight"
  BY <1>2, <1>3, <1>5, <1>7, <1>8 DEF B!Admit, BFate
<1>9. CASE Fate(c)' = "failed"
  BY <1>2, <1>3, <1>5, <1>7, <1>9 DEF B!AtOnce, BFate
<1> QED
  BY <1>4, <1>8, <1>9

LEMMA CallSimulates ==
  ASSUME MInv, NEW c \in Calls, (\E r \in Responses : Deliver(c, r)) \/ Work(c)
  PROVE  B!Finish(c) \/ UNCHANGED B!vars
<1>1. TInv /\ ManyTypeOK
  BY DEF MInv
<1>2. status = "gathering" /\ UNCHANGED status
  BY DEF Deliver, Work, batchVars
<1>3. /\ pc[c] \in Timed /\ Alone(c)
      /\ \/ pc'[c] \in Timed
         \/ pc'[c] = "ended" /\ outcome'[c] # "CancelledError"
  BY <1>1, DeliverEnds, WorkEnds
<1>4. BFate' = [BFate EXCEPT ![c] = Fate(c)'] /\ Reply' = Reply
  BY <1>2, <1>3, OneFate, ReplyKept
<1>5. Fate(c) = "inflight" /\ Fate(c)' \in {"inflight", "ok", "failed"}
  BY <1>3 DEF Fate, Timed
<1>6. CASE Fate(c)' = "inflight"
  BY <1>2, <1>4, <1>5, <1>6 DEF B!vars, BFate
<1>7. CASE Fate(c)' \in {"ok", "failed"}
  BY <1>2, <1>4, <1>5, <1>7 DEF B!Finish, BFate
<1> QED
  BY <1>5, <1>6, <1>7

LEMMA DropSimulates ==
  ASSUME MInv, NEW c \in Calls, Drop(c)
  PROVE  B!Drop(c)
<1>1. /\ pc \in [Calls -> Timed \cup {"idle", "ended"}]
      /\ outcome \in [Calls -> Outcomes \cup {None}]
  BY DEF MInv, TInv, IInv, TypeOK
<1>2. /\ status \in {"cancelling", "cancelled"} /\ UNCHANGED status
      /\ pc[c] # "ended" /\ pc'[c] = "ended" /\ outcome'[c] = "CancelledError"
      /\ Alone(c)
  BY <1>1 DEF Drop, End, batchVars, Alone
<1>3. BFate' = [BFate EXCEPT ![c] = "dropped"] /\ Reply' = Reply
  BY <1>2, OneFate, ReplyKept DEF Fate
<1>4. Fate(c) \in {"queued", "inflight"}
  BY <1>2 DEF Fate
<1> QED
  BY <1>2, <1>3, <1>4 DEF B!Drop, BFate

LEMMA ReturnSimulates ==
  ASSUME MInv, NoneDropped, Return
  PROVE  B!Return
<1>1. /\ status = "gathering" /\ status' = "returned" /\ UNCHANGED <<pc, outcome>>
      /\ \A c \in Calls : pc[c] = "ended"
  BY DEF Return, AllEnded, vars, callVars
<1>2. \A c \in Calls : outcome[c] # "CancelledError"
  BY <1>1 DEF NoneDropped
<1>3. \A c \in Calls : /\ BFate[c] \in {"ok", "failed"}
                       /\ BFate[c] = "ok" <=> outcome[c] = "Completion"
  BY <1>1, <1>2 DEF BFate, Fate
<1>4. BFate' = BFate
  BY <1>1 DEF BFate, Fate
<1>5. B!Failed = {c \in Calls : Fate(c) = "failed"}
  BY ItemsAreCalls DEF B!Failed
<1>6. {c \in Calls : Fate(c) \in {"ok", "failed"}} = Calls
  BY <1>3 DEF BFate
<1>7. Reply' = [results |-> [c \in Calls |-> IF BFate[c] = "ok" THEN c ELSE None],
                errors  |-> Cardinality(B!Failed),
                n       |-> Cardinality(Calls)]
  <2>1. [c \in Calls |-> IF outcome[c] = "Completion" THEN c ELSE None]
          = [c \in Calls |-> IF BFate[c] = "ok" THEN c ELSE None]
    BY <1>3
  <2>2. Reply' = [results |-> [c \in Calls |-> IF outcome[c] = "Completion" THEN c ELSE None],
                  errors  |-> Cardinality({c \in Calls : Fate(c) = "failed"}),
                  n       |-> Cardinality({c \in Calls : Fate(c) \in {"ok", "failed"}})]
    BY <1>1 DEF Reply, Fate
  <2> QED
    BY <1>5, <1>6, <2>1, <2>2
<1> QED
  BY <1>1, <1>3, <1>4, <1>7, ItemsAreCalls, SameCardinality DEF B!Return, BFate

LEMMA CancelSimulates ==
  ASSUME MInv, CancelBatch \/ Abort
  PROVE  B!Cancel \/ B!Abort
<1>1. UNCHANGED <<pc, outcome>> /\ status # "returned" /\ status' # "returned"
  BY DEF CancelBatch, Abort, vars, callVars
<1>2. BFate' = BFate /\ Reply' = Reply
  BY <1>1, ReplyKept DEF BFate, Fate
<1>3. CASE CancelBatch
  BY <1>2, <1>3 DEF CancelBatch, B!Cancel, BFate
<1>4. CASE Abort
  <2>1. \A c \in Calls : outcome[c] = "CancelledError" => pc[c] = "ended"
    BY ClientAssumption DEF MInv, TInv, IInv, Fresh, Outcomes
  <2>2. \/ \E c \in Calls : BFate[c] = "dropped"
        \/ \A c \in Calls : BFate[c] \in {"ok", "failed"}
    BY <1>4, <2>1 DEF Abort, AllEnded, BFate, Fate
  <2> QED
    BY <1>2, <1>4, <2>2, ItemsAreCalls DEF Abort, B!Abort, BFate
<1> QED
  BY <1>3, <1>4

LEMMA NoneDroppedKept ==
  ASSUME MInv, NoneDropped, [BatchNext]_manyVars
  PROVE  NoneDropped'
<1>1. TInv /\ ManyTypeOK
  BY DEF MInv
<1>2. ASSUME NEW c \in Calls,
             Admit(c) \/ (\E r \in Responses : Deliver(c, r)) \/ Work(c)
      PROVE  NoneDropped'
  <2>1. status = "gathering" /\ Alone(c)
    BY <1>1, <1>2, AdmitEnds, DeliverEnds, WorkEnds DEF Admit, Admissible, Deliver, Work
  <2>2. pc'[c] \in Timed \/ outcome'[c] # "CancelledError"
    BY <1>1, <1>2, AdmitEnds, DeliverEnds, WorkEnds
  <2>3. pc'[c] \in Timed => outcome'[c] = None
    <3>1. TInv'
      BY <1>1, BatchInTime
    <3> QED
      BY <3>1 DEF TInv, IInv, Fresh, Timed
  <2>4. None # "CancelledError"
    BY ClientAssumption DEF Outcomes
  <2>5. \A k \in Calls : outcome'[k] # "CancelledError"
    BY <2>1, <2>2, <2>3, <2>4 DEF NoneDropped, Alone
  <2> QED
    BY <2>5 DEF NoneDropped
<1>3. ASSUME NEW c \in Calls, Drop(c) PROVE NoneDropped'
  BY <1>3 DEF Drop, batchVars, NoneDropped
<1>4. CASE CancelBatch \/ Return \/ Abort \/ Close \/ Pass \/ Over \/ UNCHANGED manyVars
  <2>1. /\ UNCHANGED outcome
        /\ status' \in {"gathering", "returned"} => status \in {"gathering", "returned"}
    BY <1>4 DEF CancelBatch, Return, Abort, Close, Pass, Over, aclose, Tick, vars, callVars,
       batchVars, manyVars
  <2> QED
    BY <2>1 DEF NoneDropped
<1> QED
  BY <1>2, <1>3, <1>4 DEF BatchNext

LEMMA BatchSimulates ==
  ASSUME MInv, NoneDropped, [BatchNext]_manyVars
  PROVE  [B!Next]_(B!vars)
<1>1. ASSUME NEW c \in Calls,
             Admit(c) \/ (\E r \in Responses : Deliver(c, r)) \/ Work(c) \/ Drop(c)
      PROVE  [B!Next]_(B!vars)
  BY <1>1, AdmitSimulates, CallSimulates, DropSimulates, ItemsAreCalls DEF B!Next
<1>2. CASE Return \/ CancelBatch \/ Abort
  BY <1>2, ReturnSimulates, CancelSimulates DEF B!Next
<1>3. CASE Close \/ Pass \/ Over \/ UNCHANGED manyVars
  <2>1. UNCHANGED <<pc, outcome, status>>
    BY <1>3 DEF Close, Pass, Over, aclose, Tick, vars, callVars, batchVars, manyVars
  <2> QED
    BY <2>1 DEF B!vars, Fate, Reply
<1> QED
  BY <1>1, <1>2, <1>3 DEF BatchNext

LEMMA InitSimulates == BatchInit => NoneDropped /\ B!Init
<1> SUFFICES ASSUME BatchInit PROVE NoneDropped /\ B!Init
  OBVIOUS
<1>1. /\ \A c \in Calls : pc[c] = "idle" /\ outcome[c] = None
      /\ status = "gathering"
  BY DEF BatchInit, Init
<1>2. None # "CancelledError"
  BY ClientAssumption DEF Outcomes
<1>3. NoneDropped
  BY <1>1, <1>2 DEF NoneDropped
<1>4. B!Init
  BY <1>1, ItemsAreCalls DEF B!Init, Fate, Reply
<1> QED
  BY <1>3, <1>4

(* chat_many keeps bounded_map's promise with chat as its work, for every  *)
(* batch, limit, policy and server: what a call goes through between its   *)
(* admission and its end shows in nothing but the end.                     *)
THEOREM BatchKept == BatchSpec => ImplementsBatch
<1>1. BatchInit => NoneDropped /\ B!Init
  BY InitSimulates
<1>2. MInv /\ NoneDropped /\ [BatchNext]_manyVars => NoneDropped' /\ [B!Next]_(B!vars)
  BY NoneDroppedKept, BatchSimulates
<1> QED
  BY <1>1, <1>2, BatchInvariance, PTL DEF BatchSpec, ImplementsBatch, B!Spec
=============================================================================
