--------------------------- MODULE ChatTimeProofs ---------------------------
(***************************************************************************)
(* How long a call of Chat may last, for any number of calls, any policy,  *)
(* any deadlines and any lateness of the event loop.                       *)
(*                                                                         *)
(* The argument follows the timers.  The clock never runs more than Lag    *)
(* past the timer a call waits on, and each timer a call sets is bounded:  *)
(* the first one of a request and every sleep end by the deadline, and any *)
(* other one follows its predecessor by Lag and one clamped timeout, until *)
(* the request trickles.                                                   *)
(***************************************************************************)
EXTENDS ChatProofs, Counting

(* Timed operations of the request before the one that is under way        *)
Before(c) == IF Contended THEN phase[c] ELSE phase[c] - 1

(* Most that a request and a sleep take                                    *)
Round == Request + Pause

(* The timer of a sleep, and of an operation of a request                  *)
SleepBounded(c) ==
  /\ HasDeadline(total[c]) => due[c] <= start[c] + total[c]
  /\ ~trickled[c] =>
        due[c] <= started[c] + attempt[c] * Round + Request + MaxDelay

RequestBounded(c) ==
  /\ HasDeadline(total[c]) => timeout[c] <= Least(TimeoutS, total[c])
  /\ (HasDeadline(total[c]) /\ phase[c] <= NetPhases) =>
        due[c] <= start[c] + total[c]
                    + Before(c) * (Lag + Least(TimeoutS, total[c]))
  /\ ~trickled[c] =>
        due[c] <= started[c] + attempt[c] * Round
                    + Before(c) * (TimeoutS + Lag) + TimeoutS

InTime(c) ==
  /\ pc[c] = "idle" => attempt[c] = 0
  /\ pc[c] = "pooled" => Contended /\ phase[c] = 0
  /\ pc[c] = "net" => phase[c] >= 1 /\ (phase[c] > NetPhases => trickled[c])
  /\ pc[c] \in Timed => now <= due[c] + Lag /\ start[c] <= now
  /\ pc[c] = "sleeping" => SleepBounded(c)
  /\ pc[c] \in InRequest => RequestBounded(c)

TInv == IInv /\ \A c \in Calls : InTime(c)

-----------------------------------------------------------------------------
LEMMA Sizes ==
  /\ TimeoutS \in Nat /\ Lag \in Nat /\ NetPhases \in Nat /\ NetPhases >= 1
  /\ MaxDelay \in Nat /\ MaxRetries \in Nat
  /\ Operations \in Nat /\ Operations >= 1
  /\ Request \in Nat /\ Round \in Nat /\ Round = Request + MaxDelay + Lag
  /\ TimeoutS + Lag <= Request
<1>1. /\ TimeoutS \in Nat /\ Lag \in Nat /\ NetPhases \in Nat /\ NetPhases >= 1
      /\ MaxDelay \in Nat /\ MaxRetries \in Nat
  BY ClientAssumption, PolicyAssumption
<1>2. Operations \in Nat /\ Operations >= 1
  BY <1>1 DEF Operations
<1>3. TimeoutS + Lag \in Nat
  BY <1>1
<1>4. Request \in Nat /\ 1 * (TimeoutS + Lag) <= Request
  BY <1>2, <1>3, Products DEF Request
<1> QED
  BY <1>1, <1>2, <1>3, <1>4 DEF Round, Pause

(* A request waits for a connection only if there are more calls than      *)
(* connections.                                                            *)
LEMMA WaitsOnlyIfContended ==
  ASSUME NEW c \in Calls, pc[c] # "net", ~(Cardinality(At("net")) < PoolSize)
  PROVE  Contended
<1>1. /\ IsFiniteSet(Calls) /\ PoolSize \in Nat
      /\ At("net") \subseteq Calls \ {c}
  BY ClientAssumption DEF At
<1>2. /\ IsFiniteSet(Calls \ {c}) /\ Cardinality(Calls \ {c}) = Cardinality(Calls) - 1
      /\ Cardinality(Calls) \in Nat
  BY <1>1, FS_RemoveElement, FS_CardinalityType
<1>3. Cardinality(At("net")) <= Cardinality(Calls \ {c}) /\ Cardinality(At("net")) \in Nat
  BY <1>1, <1>2, FS_Subset, FS_CardinalityType
<1> QED
  BY <1>1, <1>2, <1>3 DEF Contended

-----------------------------------------------------------------------------
LEMMA InitInTime == Init => TInv
  BY InitInvariant DEF TInv, InTime, Init, Timed, InRequest

(* A step that leaves a call and the clock alone leaves it in time.        *)
LEMMA UntouchedInTime ==
  ASSUME NEW k \in Calls, InTime(k),
         /\ pc'[k] = pc[k] /\ attempt'[k] = attempt[k] /\ total'[k] = total[k]
         /\ start'[k] = start[k] /\ started'[k] = started[k]
         /\ timeout'[k] = timeout[k] /\ due'[k] = due[k] /\ phase'[k] = phase[k]
         /\ trickled'[k] = trickled[k],
         now' = now
  PROVE  InTime(k)'
  BY DEF InTime, SleepBounded, RequestBounded, Before

LEMMA EndedInTime ==
  ASSUME NEW c \in Calls, pc'[c] = "ended"
  PROVE  InTime(c)'
  BY DEF InTime, Timed, InRequest

(* The head of the loop gives its request a timer that fires by the        *)
(* deadline, if the attempts before it took no longer than they may.       *)
LEMMA AttemptInTime ==
  ASSUME IInv, NEW c \in Calls, NEW tot \in Nat \cup {None}, NEW st \in Int,
         pc[c] \in {"idle", "sleeping"}, Attempt(c, tot, st),
         total'[c] = tot, start'[c] = st, st <= now,
         started'[c] \in Nat, attempt'[c] \in Nat,
         ~trickled[c] => now <= started'[c] + attempt'[c] * Round,
         UNCHANGED now
  PROVE  InTime(c)'
<1> DEFINE w == clamp(tot, st, now, TimeoutS)
<1>1. /\ now \in Nat /\ TimeoutS \in Nat /\ Lag \in Nat /\ Round \in Nat
      /\ attempt'[c] * Round \in Nat /\ NetPhases \in Nat /\ NetPhases >= 1
      /\ pc \in [Calls -> Timed \cup {"idle", "ended"}]
  BY Sizes, Products DEF IInv, TypeOK
<1>2. w \in Nat /\ w <= TimeoutS
  <2>1. w \in 0 .. TimeoutS
    BY <1>1, ClampBounds
  <2> QED
    BY <1>1, <2>1
<1>3. CASE pc'[c] = "ended"
  BY <1>3, EndedInTime
<1>4. ASSUME pc'[c] # "ended"
      PROVE  /\ ~expired(tot, st, now)
             /\ timeout'[c] = w
             /\ due'[c] = now + w
             /\ trickled'[c] = trickled[c]
             /\ \/ pc'[c] = "net" /\ phase'[c] = 1
                \/ pc'[c] = "pooled" /\ phase'[c] = 0 /\ Contended
  BY <1>1, <1>4, WaitsOnlyIfContended
     DEF Attempt, BudgetGone, AttemptTimeout, End, IInv, TypeOK
<1>5. CASE pc'[c] # "ended"
  <2>1. HasDeadline(tot) => w <= Least(TimeoutS, tot) /\ now + w <= st + tot
    BY <1>1, <1>4, <1>5 DEF HasDeadline, clamp, expired, Least
  <2> HIDE DEF w
  <2>2. Before(c)' \in Nat
    BY <1>4, <1>5 DEF Before
  <2>3. /\ Before(c)' * (TimeoutS + Lag) \in Nat
        /\ HasDeadline(tot) => Before(c)' * (Lag + Least(TimeoutS, tot)) \in Nat
    <3>1. TimeoutS + Lag \in Nat /\ (HasDeadline(tot) => Lag + Least(TimeoutS, tot) \in Nat)
      BY <1>1 DEF HasDeadline, Least
    <3> QED
      BY <2>2, <3>1, Products
  <2>4. /\ HasDeadline(tot) =>
             due'[c] <= st + tot + Before(c)' * (Lag + Least(TimeoutS, tot))
        /\ ~trickled[c] =>
             due'[c] <= started'[c] + attempt'[c] * Round
                          + Before(c)' * (TimeoutS + Lag) + TimeoutS
    BY <1>1, <1>2, <1>4, <1>5, <2>1, <2>3 DEF HasDeadline
  <2>5. RequestBounded(c)'
    BY <1>4, <1>5, <2>1, <2>4 DEF RequestBounded
  <2> QED
    BY <1>1, <1>2, <1>4, <1>5, <2>5 DEF InTime, InRequest, Timed
<1> QED
  BY <1>3, <1>5

(* The operations of a request that does not trickle add up to at most a   *)
(* whole request.                                                          *)
LEMMA LastOperation ==
  ASSUME IInv, NEW c \in Calls, pc[c] \in InRequest, InTime(c), ~trickled[c]
  PROVE  /\ Before(c) * (TimeoutS + Lag) \in Nat
         /\ Before(c) * (TimeoutS + Lag) + TimeoutS + Lag <= Request
<1>1. phase[c] \in 0 .. NetPhases + 1
  BY DEF IInv, TypeOK
<1>2. Before(c) \in Nat /\ Before(c) + 1 \in Nat /\ Before(c) + 1 <= Operations
  BY <1>1, Sizes DEF Before, Operations, InTime, InRequest
<1>3. TimeoutS + Lag \in Nat /\ Operations \in Nat
  BY Sizes
<1>4. /\ Before(c) * (TimeoutS + Lag) \in Nat
      /\ (Before(c) + 1) * (TimeoutS + Lag)
            = Before(c) * (TimeoutS + Lag) + (TimeoutS + Lag)
      /\ (Before(c) + 1) * (TimeoutS + Lag) <= Request
  BY <1>2, <1>3, Products DEF Request
<1> QED
  BY <1>4, Sizes

(* A request fails by Lag after its last timer, and the sleep after it     *)
(* ends by the deadline.                                                   *)
LEMMA FailInTime ==
  ASSUME IInv, NEW c \in Calls, NEW f, pc[c] \in InRequest, InTime(c), Fail(c, f)
  PROVE  InTime(c)'
<1>1. /\ now \in Nat /\ TimeoutS \in Nat /\ Lag \in Nat /\ Round \in Nat
      /\ Request \in Nat /\ MaxDelay \in Nat /\ NetPhases \in Nat
      /\ attempt[c] \in Nat /\ attempt[c] * Round \in Nat
      /\ total[c] \in Nat \cup {None} /\ start[c] \in Int /\ started[c] \in Nat
      /\ phase[c] \in 0 .. NetPhases + 1 /\ due[c] \in Nat
      /\ pc \in [Calls -> Timed \cup {"idle", "ended"}] /\ due \in [Calls -> Nat]
  <2>1. Round \in Nat /\ attempt[c] \in Nat
    BY Sizes DEF IInv, TypeOK
  <2> QED
    BY <2>1, Sizes, Products DEF IInv, TypeOK
<1>2. /\ total'[c] = total[c] /\ start'[c] = start[c] /\ started'[c] = started[c]
      /\ attempt'[c] = attempt[c] /\ trickled'[c] = trickled[c] /\ now' = now
  BY DEF Fail, budgetVars, netVars
<1>3. ASSUME ~trickled[c] PROVE now <= started[c] + attempt[c] * Round + Request
  <2>2. /\ Before(c) * (TimeoutS + Lag) \in Nat
        /\ Before(c) * (TimeoutS + Lag) + TimeoutS + Lag <= Request
    BY <1>3, LastOperation
  <2>3. /\ now <= due[c] + Lag
        /\ due[c] <= started[c] + attempt[c] * Round
                      + Before(c) * (TimeoutS + Lag) + TimeoutS
    BY <1>3 DEF InTime, RequestBounded, InRequest, Timed
  <2> QED
    BY <1>1, <2>2, <2>3
<1>4. CASE pc'[c] = "ended"
  BY <1>4, EndedInTime
<1>5. ASSUME NEW d \in delay_for(attempt[c], f.retry_after),
             ~expired(total[c], start[c], now),
             due' = [due EXCEPT ![c] = now + clamp(total[c], start[c], now, d)],
             pc' = [pc EXCEPT ![c] = "sleeping"]
      PROVE  InTime(c)'
  <2> DEFINE w == clamp(total[c], start[c], now, d)
  <2>1. d \in Nat /\ d <= MaxDelay
    BY <1>1, DelayBounds
  <2>2. w \in Nat /\ w <= d
    <3>1. w \in 0 .. d
      BY <1>1, <2>1, ClampBounds
    <3> QED
      BY <2>1, <3>1
  <2>3. HasDeadline(total[c]) => now + w <= start[c] + total[c]
    BY <1>1, <1>5, <2>1 DEF HasDeadline, clamp, expired, Least
  <2>4. due'[c] = now + w /\ pc'[c] = "sleeping"
    BY <1>1, <1>5
  <2> HIDE DEF w
  <2>5. SleepBounded(c)'
    BY <1>1, <1>2, <1>3, <2>1, <2>2, <2>3, <2>4 DEF SleepBounded, HasDeadline
  <2>6. start[c] <= now
    BY DEF InTime, InRequest, Timed
  <2> QED
    BY <1>1, <1>2, <2>2, <2>4, <2>5, <2>6 DEF InTime, InRequest
<1>6. End(c, "last_error") \/ End(c, "RetryBudgetExceeded") => pc'[c] = "ended"
  BY <1>1 DEF End
<1> QED
  BY <1>4, <1>5, <1>6 DEF Fail

(* The next operation of a request: how its timer is set, and how many     *)
(* operations are then behind it unless it trickles.                       *)
LEMMA NextOperation ==
  ASSUME IInv, NEW c \in Calls, InTime(c), Grant(c) \/ Proceed(c)
  PROVE  /\ pc[c] \in InRequest /\ pc'[c] = "net"
         /\ due'[c] = now + timeout[c]
         /\ phase'[c] >= 1 /\ (phase'[c] > NetPhases => trickled'[c])
         /\ ~trickled'[c] => phase'[c] <= NetPhases /\ ~trickled[c]
         /\ phase'[c] <= NetPhases =>
               /\ phase[c] < NetPhases
               /\ Before(c) \in Nat /\ Before(c)' = Before(c) + 1
<1>1. /\ now \in Nat /\ NetPhases \in Nat /\ NetPhases >= 1
      /\ phase[c] \in 0 .. NetPhases + 1
  BY Sizes DEF IInv, TypeOK
<1>2. /\ pc[c] \in InRequest /\ pc'[c] = "net"
      /\ phase'[c] = Least(phase[c] + 1, NetPhases + 1)
      /\ due'[c] = now + timeout[c]
      /\ ~trickled'[c] => phase[c] < NetPhases /\ ~trickled[c]
      /\ phase[c] >= NetPhases => trickled'[c]
  <2>1. /\ phase \in [Calls -> 0 .. NetPhases + 1] /\ trickled \in [Calls -> BOOLEAN]
        /\ pc \in [Calls -> Timed \cup {"idle", "ended"}]
        /\ due \in [Calls -> Nat] /\ NetPhases >= 1
    BY Sizes DEF IInv, TypeOK
  <2>2. CASE Grant(c)
    <3>1. /\ pc[c] = "pooled" /\ pc'[c] = "net" /\ phase'[c] = 1 /\ phase[c] = 0
          /\ due'[c] = now + timeout[c] /\ trickled' = trickled
      BY <2>1, <2>2 DEF Grant, InTime
    <3> QED
      BY <1>1, <2>1, <3>1 DEF InRequest, Least
  <2>3. CASE Proceed(c)
    <3>1. /\ pc[c] = "net" /\ pc' = pc
          /\ phase'[c] = Least(phase[c] + 1, NetPhases + 1)
          /\ due'[c] = now + timeout[c]
      BY <2>1, <2>3 DEF Proceed
    <3>2. phase[c] >= NetPhases => trickled'[c]
      BY <2>1, <2>3 DEF Proceed
    <3>3. ~trickled'[c] => ~trickled[c]
      BY <2>1, <2>3 DEF Proceed
    <3> QED
      BY <1>1, <3>1, <3>2, <3>3 DEF InRequest
  <2> QED
    BY <2>2, <2>3
<1>3. ASSUME phase'[c] <= NetPhases
      PROVE  /\ phase[c] < NetPhases /\ phase'[c] = phase[c] + 1
             /\ Before(c) \in Nat /\ Before(c)' = Before(c) + 1
  <2>0. phase[c] < NetPhases /\ phase'[c] = phase[c] + 1
    BY <1>1, <1>2, <1>3 DEF Least
  <2>1. pc[c] = "pooled" => Contended
    BY DEF InTime
  <2>2. pc[c] = "net" => phase[c] >= 1
    BY DEF InTime
  <2>3. pc[c] = "pooled" \/ pc[c] = "net"
    BY <1>2 DEF InRequest
  <2> QED
    BY <1>1, <1>2, <2>0, <2>1, <2>2, <2>3 DEF Before
<1>4. phase'[c] >= 1 /\ (phase'[c] > NetPhases => trickled'[c])
  BY <1>1, <1>2 DEF Least
<1>5. ~trickled'[c] => phase'[c] <= NetPhases
  BY <1>1, <1>2 DEF Least
<1> QED
  BY <1>2, <1>3, <1>4, <1>5

(* The next operation of a request begins by Lag after the timer of the    *)
(* one before it.                                                          *)
LEMMA ContinueInTime ==
  ASSUME IInv, NEW c \in Calls, InTime(c), Grant(c) \/ Proceed(c)
  PROVE  InTime(c)'
<1>1. /\ now \in Nat /\ TimeoutS \in Nat /\ Lag \in Nat /\ Round \in Nat
      /\ NetPhases \in Nat /\ attempt[c] \in Nat
      /\ total[c] \in Nat \cup {None} /\ start[c] \in Int /\ started[c] \in Nat
      /\ phase[c] \in 0 .. NetPhases + 1 /\ due[c] \in Nat /\ timeout[c] \in 0 .. TimeoutS
  BY Sizes DEF IInv, TypeOK
<1>2. attempt[c] * Round \in Nat
  BY <1>1, Products
<1>3. /\ total'[c] = total[c] /\ start'[c] = start[c] /\ started'[c] = started[c]
      /\ attempt'[c] = attempt[c] /\ timeout'[c] = timeout[c] /\ now' = now
  BY DEF Grant, Proceed, budgetVars
<1>4. /\ pc[c] \in InRequest /\ pc'[c] = "net"
      /\ due'[c] = now + timeout[c]
      /\ ~trickled'[c] => phase'[c] <= NetPhases /\ ~trickled[c]
  BY NextOperation
<1>5. ASSUME phase'[c] <= NetPhases
      PROVE  phase[c] < NetPhases /\ Before(c) \in Nat /\ Before(c)' = Before(c) + 1
  BY <1>5, NextOperation
<1>6. /\ RequestBounded(c) /\ now <= due[c] + Lag /\ start[c] <= now
  BY <1>4 DEF InTime, InRequest, Timed
<1>7. ASSUME ~trickled'[c]
      PROVE  due'[c] <= started[c] + attempt[c] * Round
                         + Before(c)' * (TimeoutS + Lag) + TimeoutS
  <2>1. TimeoutS + Lag \in Nat /\ phase'[c] <= NetPhases /\ ~trickled[c]
    BY <1>1, <1>4, <1>7
  <2>2. /\ (Before(c) + 1) * (TimeoutS + Lag)
              = Before(c) * (TimeoutS + Lag) + (TimeoutS + Lag)
        /\ Before(c) * (TimeoutS + Lag) \in Nat
    BY <1>5, <2>1, Products
  <2>3. due[c] <= started[c] + attempt[c] * Round
                   + Before(c) * (TimeoutS + Lag) + TimeoutS
    BY <1>6, <2>1 DEF RequestBounded
  <2> QED
    BY <1>1, <1>2, <1>4, <1>5, <1>6, <2>1, <2>2, <2>3
<1>8. ASSUME HasDeadline(total[c]), phase'[c] <= NetPhases
      PROVE  due'[c] <= start[c] + total[c]
                         + Before(c)' * (Lag + Least(TimeoutS, total[c]))
  <2> DEFINE L == Least(TimeoutS, total[c])
  <2>1. L \in Nat /\ Lag + L \in Nat
    BY <1>1, <1>8 DEF HasDeadline, Least
  <2>2. timeout[c] <= L /\ due[c] <= start[c] + total[c] + Before(c) * (Lag + L)
    BY <1>1, <1>5, <1>6, <1>8 DEF RequestBounded
  <2> HIDE DEF L
  <2>3. /\ (Before(c) + 1) * (Lag + L) = Before(c) * (Lag + L) + (Lag + L)
        /\ Before(c) * (Lag + L) \in Nat
    BY <1>5, <1>8, <2>1, Products
  <2>4. due'[c] <= start[c] + total[c] + Before(c)' * (Lag + L)
    BY <1>1, <1>4, <1>5, <1>6, <1>8, <2>1, <2>2, <2>3 DEF HasDeadline
  <2> QED
    BY <2>4 DEF L
<1>9. RequestBounded(c)'
  BY <1>3, <1>6, <1>7, <1>8 DEF RequestBounded
<1>10. phase'[c] >= 1 /\ (phase'[c] > NetPhases => trickled'[c])
  BY NextOperation
<1> QED
  BY <1>1, <1>3, <1>4, <1>6, <1>9, <1>10 DEF InTime, InRequest, Timed

LEMMA BeginInTime ==
  ASSUME IInv, NEW c \in Calls, NEW tot \in Deadlines, NEW age \in Ages,
         InTime(c), Begin(c, tot, age)
  PROVE  InTime(c)'
<1>1. /\ tot \in Nat \cup {None} /\ age \in Nat /\ now \in Nat
      /\ total \in [Calls -> Nat \cup {None}] /\ start \in [Calls -> Int]
      /\ started \in [Calls -> Nat] /\ Round \in Nat
  BY ClientAssumption, Sizes DEF IInv, TypeOK
<1>2. /\ pc[c] = "idle" /\ Attempt(c, tot, now - age)
      /\ total'[c] = tot /\ start'[c] = now - age /\ started'[c] = now
      /\ UNCHANGED <<attempt, now>>
  BY <1>1 DEF Begin
<1>3. attempt'[c] = 0 /\ 0 * Round = 0
  BY <1>1, <1>2 DEF InTime
<1>4. now - age \in Int /\ now - age <= now /\ now <= started'[c] + attempt'[c] * Round
  BY <1>1, <1>2, <1>3
<1>5. /\ total'[c] = tot /\ start'[c] = now - age /\ now' = now
      /\ started'[c] \in Nat /\ attempt'[c] \in Nat /\ pc[c] \in {"idle", "sleeping"}
  BY <1>1, <1>2, <1>3
<1> QED
  BY <1>1, <1>2, <1>4, <1>5, AttemptInTime

LEMMA WakeInTime ==
  ASSUME IInv, NEW c \in Calls, InTime(c), Wake(c)
  PROVE  InTime(c)'
<1>1. /\ total[c] \in Nat \cup {None} /\ start[c] \in Int /\ now \in Nat
      /\ started[c] \in Nat /\ attempt \in [Calls -> 0 .. MaxRetries]
      /\ attempt[c] \in Nat /\ due[c] \in Nat
      /\ Round \in Nat /\ Lag \in Nat /\ MaxDelay \in Nat /\ Request \in Nat
  BY Sizes DEF IInv, TypeOK
<1>2. /\ pc[c] = "sleeping" /\ Attempt(c, total[c], start[c])
      /\ attempt'[c] = attempt[c] + 1
      /\ UNCHANGED <<total, start, started, now>>
  BY <1>1 DEF Wake, NextAttempt, budgetVars
<1>3. SleepBounded(c) /\ now <= due[c] + Lag /\ start[c] <= now
  BY <1>2 DEF InTime, Timed
<1>4. attempt[c] * Round \in Nat /\ (attempt[c] + 1) * Round = attempt[c] * Round + Round
  BY <1>1, Products
<1>5. ~trickled[c] => now <= started'[c] + attempt'[c] * Round
  BY <1>1, <1>2, <1>3, <1>4, Sizes DEF SleepBounded
<1>6. /\ total'[c] = total[c] /\ start'[c] = start[c] /\ UNCHANGED now
      /\ started'[c] \in Nat /\ attempt'[c] \in Nat /\ pc[c] \in {"idle", "sleeping"}
  BY <1>1, <1>2
<1> QED
  BY <1>1, <1>2, <1>3, <1>5, <1>6, AttemptInTime

LEMMA StepInTime ==
  ASSUME IInv, \A k \in Calls : InTime(k), NEW c \in Calls, Step(c)
  PROVE  \A k \in Calls : InTime(k)'
<1>1. ASSUME NEW k \in Calls, k # c PROVE InTime(k)'
  <2>1. /\ pc'[k] = pc[k] /\ attempt'[k] = attempt[k] /\ total'[k] = total[k]
        /\ start'[k] = start[k] /\ started'[k] = started[k]
        /\ timeout'[k] = timeout[k] /\ due'[k] = due[k] /\ phase'[k] = phase[k]
        /\ trickled'[k] = trickled[k] /\ now' = now
    BY <1>1 DEF IInv, TypeOK, Step, Progress, Advance, Begin, Reject, Grant, Proceed, Finish,
       Refuse, Break, Timer, Expire, Wake, Cancel, Attempt, Fail, End,
       budgetVars, netVars
  <2> QED
    BY <1>1, <2>1, UntouchedInTime
<1>2. ASSUME NEW tot \in Deadlines, NEW age \in Ages, Begin(c, tot, age)
      PROVE  InTime(c)'
  BY <1>2, BeginInTime
<1>3. Wake(c) => InTime(c)'
  BY WakeInTime
<1>4. Grant(c) \/ Proceed(c) => InTime(c)'
  BY ContinueInTime
<1>5. ASSUME NEW f, pc[c] \in InRequest, Fail(c, f)
      PROVE  InTime(c)'
  BY <1>5, FailInTime
<1>6. Reject(c) \/ Finish(c) \/ Cancel(c) => InTime(c)'
  <2>1. Reject(c) \/ Finish(c) \/ Cancel(c) => pc'[c] = "ended"
    BY DEF Reject, Finish, Cancel, End, IInv, TypeOK
  <2> QED
    BY <2>1, EndedInTime
<1>7. InTime(c)'
  BY <1>2, <1>3, <1>4, <1>5, <1>6
     DEF Step, Progress, Advance, Timer, Refuse, Break, Expire, InRequest
<1> QED
  BY <1>1, <1>7

LEMMA NextInTime == TInv /\ [Next]_vars => TInv'
<1> SUFFICES ASSUME TInv, [Next]_vars
             PROVE  \A k \in Calls : InTime(k)'
  BY NextInvariant DEF TInv
<1>1. CASE \E c \in Calls : Step(c)
  BY <1>1, StepInTime DEF TInv
<1>2. CASE Tick
  <2> SUFFICES ASSUME NEW k \in Calls PROVE InTime(k)'
    OBVIOUS
  <2>1. /\ UNCHANGED <<pc, attempt, total, start, started, timeout, due, phase>>
        /\ trickled' = trickled /\ now' = now + 1
        /\ pc[k] \in Timed => now < due[k] + Lag
    BY <1>2 DEF Tick, callVars, budgetVars, netVars, Active
  <2>2. /\ now \in Nat /\ due[k] \in Nat /\ Lag \in Nat /\ start[k] \in Int
    BY Sizes DEF TInv, IInv, TypeOK
  <2>3. SleepBounded(k)' = SleepBounded(k) /\ RequestBounded(k)' = RequestBounded(k)
    BY <2>1 DEF SleepBounded, RequestBounded, Before
  <2>4. InTime(k)
    BY DEF TInv
  <2>5. pc'[k] \in Timed => now' <= due'[k] + Lag /\ start'[k] <= now'
    BY <2>1, <2>2, <2>4 DEF InTime
  <2> QED
    BY <2>1, <2>3, <2>4, <2>5 DEF InTime
<1>3. CASE aclose \/ Terminated \/ UNCHANGED vars
  BY <1>3, UntouchedInTime DEF TInv, aclose, Terminated, vars, callVars, budgetVars, netVars
<1> QED
  BY <1>1, <1>2, <1>3 DEF Next

(* Every call is in time in every reachable state.                         *)
THEOREM InTimeAlways == Spec => []TInv
  BY InitInTime, NextInTime, PTL DEF Spec

-----------------------------------------------------------------------------
LEMMA InTimeBounds == TInv => OverrunBound
<1>1. ASSUME TInv, NEW c \in Active, HasDeadline(total[c]), ~Trickles(c)
      PROVE  now <= start[c] + total[c] + Lag * Operations
                      + (Operations - 1) * Least(TimeoutS, total[c])
  <2> DEFINE L == Least(TimeoutS, total[c])
  <2>1. /\ c \in Calls /\ InTime(c) /\ pc[c] \in Timed
        /\ now \in Nat /\ due[c] \in Nat /\ start[c] \in Int /\ total[c] \in Nat
        /\ phase[c] \in 0 .. NetPhases + 1
        /\ pc[c] \in InRequest => phase[c] <= NetPhases
    BY <1>1, Sizes DEF TInv, IInv, TypeOK, Active, HasDeadline, Trickles, InTime, InRequest
  <2>2. L \in Nat /\ Lag \in Nat /\ Lag + L \in Nat /\ Operations - 1 \in Nat
    BY <2>1, Sizes DEF Least
  <2> HIDE DEF L
  <2>3. due[c] <= start[c] + total[c] + (Operations - 1) * (Lag + L)
    <3>1. CASE pc[c] = "sleeping"
      <4>1. due[c] <= start[c] + total[c]
        BY <1>1, <2>1, <3>1 DEF InTime, SleepBounded
      <4>2. (Operations - 1) * (Lag + L) \in Nat
        BY <2>2, Products
      <4> QED
        BY <2>1, <4>1, <4>2
    <3>2. CASE pc[c] \in InRequest
      <4>1. Before(c) \in Nat /\ Before(c) <= Operations - 1
        BY <2>1, <3>2, Sizes DEF Before, Operations, InTime, InRequest
      <4>2. due[c] <= start[c] + total[c] + Before(c) * (Lag + L)
        BY <1>1, <2>1, <3>2 DEF InTime, RequestBounded, L
      <4>3. /\ Before(c) * (Lag + L) \in Nat /\ (Operations - 1) * (Lag + L) \in Nat
            /\ Before(c) * (Lag + L) <= (Operations - 1) * (Lag + L)
        BY <2>2, <4>1, Products
      <4> QED
        BY <2>1, <4>2, <4>3
    <3> QED
      BY <2>1, <3>1, <3>2 DEF Timed, InRequest
  <2>4. (Operations - 1) * (Lag + L) + Lag = Lag * Operations + (Operations - 1) * L
    BY <2>2, Sizes
  <2>5. /\ (Operations - 1) * (Lag + L) \in Nat /\ (Operations - 1) * L \in Nat
        /\ Lag * Operations \in Nat
    BY <2>2, Products, Sizes
  <2>6. now <= due[c] + Lag
    BY <2>1 DEF InTime
  <2>7. now <= start[c] + total[c] + Lag * Operations + (Operations - 1) * L
    BY <2>1, <2>2, <2>3, <2>4, <2>5, <2>6
  <2> QED
    BY <2>7 DEF L
<1> QED
  BY <1>1 DEF OverrunBound

LEMMA InTimeCallBound == TInv => CallBound
<1>1. ASSUME TInv, NEW c \in Active, ~trickled[c]
      PROVE  now - started[c] <= (MaxRetries + 1) * Request + MaxRetries * Pause
  <2>1. /\ c \in Calls /\ InTime(c) /\ pc[c] \in Timed
        /\ now \in Nat /\ due[c] \in Nat /\ started[c] \in Nat
        /\ attempt[c] \in Nat /\ attempt[c] <= MaxRetries
        /\ phase[c] \in 0 .. NetPhases + 1
        /\ pc[c] \in InRequest => phase[c] <= NetPhases
        /\ pc[c] = "sleeping" => attempt[c] + 1 <= MaxRetries
    BY <1>1, Sizes DEF TInv, IInv, TypeOK, Active, RetriesLeft, InTime, InRequest
  <2>2. now <= started[c] + MaxRetries * Round + Request
    <3>1. CASE pc[c] = "sleeping"
      <4>1. now <= started[c] + attempt[c] * Round + Request + MaxDelay + Lag
        <5>1. now <= due[c] + Lag /\ SleepBounded(c)
          BY <2>1, <3>1 DEF InTime
        <5>2. attempt[c] * Round \in Nat
          BY <2>1, Products, Sizes
        <5> QED
          BY <1>1, <2>1, <5>1, <5>2, Sizes DEF SleepBounded
      <4>2. /\ (attempt[c] + 1) * Round = attempt[c] * Round + Round
            /\ attempt[c] * Round \in Nat /\ MaxRetries * Round \in Nat
        BY <2>1, Products, Sizes
      <4>3. (attempt[c] + 1) * Round <= MaxRetries * Round
        <5>1. attempt[c] + 1 \in Nat
          BY <2>1
        <5> QED
          BY <2>1, <3>1, <5>1, Products, Sizes
      <4> QED
        BY <2>1, <4>1, <4>2, <4>3, Sizes
    <3>2. CASE pc[c] \in InRequest
      <4>1. /\ now <= due[c] + Lag
            /\ due[c] <= started[c] + attempt[c] * Round
                           + Before(c) * (TimeoutS + Lag) + TimeoutS
        BY <1>1, <2>1, <3>2 DEF InTime, RequestBounded
      <4>4. /\ Before(c) * (TimeoutS + Lag) \in Nat
            /\ Before(c) * (TimeoutS + Lag) + TimeoutS + Lag <= Request
        BY <1>1, <2>1, <3>2, LastOperation DEF TInv
      <4>5. /\ attempt[c] * Round \in Nat /\ MaxRetries * Round \in Nat
            /\ attempt[c] * Round <= MaxRetries * Round
        BY <2>1, Products, Sizes
      <4> QED
        BY <2>1, <4>1, <4>4, <4>5, Sizes
    <3> QED
      BY <2>1, <3>1, <3>2 DEF Timed, InRequest
  <2>3. MaxRetries * Round + Request = (MaxRetries + 1) * Request + MaxRetries * Pause
    <3>1. Pause \in Nat
      BY Sizes DEF Pause
    <3> QED
      BY <3>1, Sizes DEF Round
  <2>4. now - started[c] <= MaxRetries * Round + Request
    <3>1. MaxRetries * Round \in Nat /\ Request \in Nat
      BY Products, Sizes
    <3> QED
      BY <2>1, <2>2, <3>1
  <2> QED
    BY <2>3, <2>4, Zenon
<1> QED
  BY <1>1 DEF CallBound

(* No request that does not trickle carries a call further beyond its      *)
(* deadline than Lag and one clamped timeout for each of its operations    *)
(* but the first, whatever the other calls do to the pool.                 *)
THEOREM OverrunBounded == Spec => []OverrunBound
  BY InTimeBounds, InTimeAlways, PTL

(* A call without a deadline is bounded too, as long as none of its        *)
(* requests trickles: max_retries + 1 requests and the sleeps between them.*)
THEOREM CallBounded == Spec => []CallBound
  BY InTimeCallBound, InTimeAlways, PTL

-----------------------------------------------------------------------------
(* What a close leaves to a call: a timer is never set further ahead than  *)
(* a timeout or a delay, and none is set by the head of the loop once an   *)
(* owned client is closed.                                                 *)
WindsUp(c) ==
  /\ pc[c] \in InRequest => due[c] <= now + TimeoutS
  /\ pc[c] = "sleeping" => due[c] <= now + MaxDelay
  /\ (ClientClosed /\ ~trickled[c]) =>
        /\ pc[c] \in InRequest =>
              due[c] <= closedAt + Before(c) * (TimeoutS + Lag) + TimeoutS
        /\ pc[c] = "sleeping" => due[c] <= closedAt + Request + MaxDelay

CInv == TInv /\ \A c \in Calls : WindsUp(c)

LEMMA InitWindsUp == Init => CInv
  BY InitInTime DEF CInv, WindsUp, Init, InRequest

LEMMA EndedWindsUp ==
  ASSUME NEW c \in Calls, pc'[c] = "ended"
  PROVE  WindsUp(c)'
  BY DEF WindsUp, InRequest

LEMMA AttemptWindsUp ==
  ASSUME IInv, NEW c \in Calls, NEW tot \in Nat \cup {None}, NEW st \in Int,
         Attempt(c, tot, st), UNCHANGED <<closing, now>>
  PROVE  WindsUp(c)'
<1> DEFINE w == clamp(tot, st, now, TimeoutS)
<1>1. now \in Nat /\ TimeoutS \in Nat /\ pc \in [Calls -> Timed \cup {"idle", "ended"}]
  BY Sizes DEF IInv, TypeOK
<1>2. w \in 0 .. TimeoutS
  BY <1>1, ClampBounds
<1>3. \/ pc'[c] = "ended"
      \/ pc'[c] \in InRequest /\ due'[c] = now + w /\ ~ClientClosed
  BY <1>1 DEF Attempt, BudgetGone, AttemptTimeout, End, IInv, TypeOK, InRequest
<1> HIDE DEF w
<1>4. CASE pc'[c] \in InRequest /\ due'[c] = now + w /\ ~ClientClosed
  <2>1. ~ClientClosed' /\ now' = now
    BY <1>4 DEF ClientClosed, closing
  <2>2. pc'[c] # "sleeping"
    BY <1>4 DEF InRequest
  <2> QED
    BY <1>1, <1>2, <1>4, <2>1, <2>2 DEF WindsUp
<1> QED
  BY <1>3, <1>4, EndedWindsUp

LEMMA FailWindsUp ==
  ASSUME IInv, NEW c \in Calls, NEW f, pc[c] \in InRequest, InTime(c), WindsUp(c),
         Fail(c, f)
  PROVE  WindsUp(c)'
<1>1. /\ now \in Nat /\ total[c] \in Nat \cup {None} /\ start[c] \in Int
      /\ closedAt \in Nat /\ due[c] \in Nat
      /\ pc \in [Calls -> Timed \cup {"idle", "ended"}] /\ due \in [Calls -> Nat]
  BY DEF IInv, TypeOK
<1>2. /\ trickled'[c] = trickled[c] /\ closedAt' = closedAt /\ now' = now
      /\ ClientClosed' = ClientClosed
  BY DEF Fail, netVars, closing, ClientClosed
<1>3. \/ pc'[c] = "ended"
      \/ /\ pc'[c] = "sleeping"
         /\ \E d \in delay_for(attempt[c], f.retry_after) :
               due'[c] = now + clamp(total[c], start[c], now, d)
  BY <1>1 DEF Fail, End
<1>4. ASSUME pc'[c] = "sleeping",
             NEW d \in delay_for(attempt[c], f.retry_after),
             due'[c] = now + clamp(total[c], start[c], now, d)
      PROVE  WindsUp(c)'
  <2>1. d \in Nat /\ d <= MaxDelay /\ MaxDelay \in Nat
    BY <1>1, DelayBounds, Sizes
  <2>2. clamp(total[c], start[c], now, d) \in 0 .. d
    BY <1>1, <2>1, ClampBounds
  <2>3. due'[c] <= now + MaxDelay /\ due'[c] \in Nat
    BY <1>1, <1>4, <2>1, <2>2
  <2>4. ASSUME ClientClosed, ~trickled[c] PROVE now <= closedAt + Request
    <3>1. /\ now <= due[c] + Lag
          /\ due[c] <= closedAt + Before(c) * (TimeoutS + Lag) + TimeoutS
      BY <2>4 DEF InTime, WindsUp, InRequest, Timed
    <3>2. /\ Before(c) * (TimeoutS + Lag) \in Nat
          /\ Before(c) * (TimeoutS + Lag) + TimeoutS + Lag <= Request
      BY <2>4, LastOperation
    <3> QED
      BY <1>1, <3>1, <3>2, Sizes
  <2>5. (ClientClosed /\ ~trickled[c]) => due'[c] <= closedAt + Request + MaxDelay
    BY <1>1, <2>1, <2>3, <2>4, Sizes
  <2> QED
    BY <1>2, <1>4, <2>3, <2>5 DEF WindsUp, InRequest
<1> QED
  BY <1>3, <1>4, EndedWindsUp

LEMMA ContinueWindsUp ==
  ASSUME IInv, NEW c \in Calls, InTime(c), WindsUp(c), Grant(c) \/ Proceed(c)
  PROVE  WindsUp(c)'
<1>1. /\ now \in Nat /\ closedAt \in Nat /\ due[c] \in Nat
      /\ timeout[c] \in 0 .. TimeoutS /\ TimeoutS \in Nat /\ Lag \in Nat
  BY Sizes DEF IInv, TypeOK
<1>2. closedAt' = closedAt /\ now' = now /\ ClientClosed' = ClientClosed
  BY DEF Grant, Proceed, closing, ClientClosed
<1>3. /\ pc[c] \in InRequest /\ pc'[c] = "net" /\ due'[c] = now + timeout[c]
  BY NextOperation
<1>4. ASSUME ClientClosed, ~trickled'[c]
      PROVE  due'[c] <= closedAt + Before(c)' * (TimeoutS + Lag) + TimeoutS
  <2>1. /\ ~trickled[c] /\ Before(c) \in Nat /\ Before(c)' = Before(c) + 1
    BY <1>4, NextOperation
  <2>2. /\ now <= due[c] + Lag
        /\ due[c] <= closedAt + Before(c) * (TimeoutS + Lag) + TimeoutS
    BY <1>3, <1>4, <2>1 DEF InTime, WindsUp, InRequest, Timed
  <2>3. TimeoutS + Lag \in Nat
    BY <1>1
  <2>4. /\ (Before(c) + 1) * (TimeoutS + Lag)
              = Before(c) * (TimeoutS + Lag) + (TimeoutS + Lag)
        /\ Before(c) * (TimeoutS + Lag) \in Nat
    BY <2>1, <2>3, Products
  <2> QED
    BY <1>1, <1>3, <2>1, <2>2, <2>4
<1> QED
  BY <1>1, <1>2, <1>3, <1>4 DEF WindsUp

LEMMA CallWindsUp ==
  ASSUME IInv, NEW c \in Calls, InTime(c), WindsUp(c), Step(c)
  PROVE  WindsUp(c)'
<1>1. /\ now \in Nat /\ total[c] \in Nat \cup {None} /\ start[c] \in Int
      /\ pc \in [Calls -> Timed \cup {"idle", "ended"}]
  BY DEF IInv, TypeOK
<1>2. ASSUME NEW tot \in Deadlines, NEW age \in Ages, Begin(c, tot, age)
      PROVE  WindsUp(c)'
  <2>1. /\ tot \in Nat \cup {None} /\ now - age \in Int
        /\ Attempt(c, tot, now - age) /\ UNCHANGED <<closing, now>>
    BY <1>1, <1>2, ClientAssumption DEF Begin
  <2> QED
    BY <2>1, AttemptWindsUp
<1>3. Wake(c) => WindsUp(c)'
  BY <1>1, AttemptWindsUp DEF Wake
<1>4. Grant(c) \/ Proceed(c) => WindsUp(c)'
  BY ContinueWindsUp
<1>5. ASSUME NEW f, pc[c] \in InRequest, Fail(c, f)
      PROVE  WindsUp(c)'
  BY <1>5, FailWindsUp
<1>6. Reject(c) \/ Finish(c) \/ Cancel(c) => WindsUp(c)'
  BY <1>1, EndedWindsUp DEF Reject, Finish, Cancel, End
<1> QED
  BY <1>2, <1>3, <1>4, <1>5, <1>6
     DEF Step, Progress, Advance, Timer, Refuse, Break, Expire, InRequest

LEMMA NextWindsUp == CInv /\ [Next]_vars => CInv'
<1> SUFFICES ASSUME CInv, [Next]_vars, NEW k \in Calls
             PROVE  WindsUp(k)'
  BY NextInTime DEF CInv
<1>1. /\ IInv /\ InTime(k) /\ WindsUp(k)
      /\ now \in Nat /\ due[k] \in Nat /\ closedAt \in Nat
      /\ TimeoutS \in Nat /\ MaxDelay \in Nat /\ Request \in Nat
  BY Sizes DEF CInv, TInv, IInv, TypeOK
<1>2. ASSUME NEW c \in Calls, Step(c) PROVE WindsUp(k)'
  <2>1. CASE c = k
    BY <1>1, <1>2, <2>1, CallWindsUp
  <2>2. CASE c # k
    <3>1. /\ pc'[k] = pc[k] /\ due'[k] = due[k] /\ phase'[k] = phase[k]
          /\ trickled'[k] = trickled[k] /\ UNCHANGED <<closed, closedAt, now>>
      BY <1>1, <1>2, <2>2
         DEF IInv, TypeOK, Step, Progress, Advance, Begin, Reject, Grant, Proceed,
             Finish, Refuse, Break, Timer, Expire, Wake, Cancel, Attempt, Fail, End,
             budgetVars, netVars, closing
    <3> QED
      BY <1>1, <3>1 DEF WindsUp, Before, ClientClosed
  <2> QED
    BY <2>1, <2>2
<1>3. CASE Tick
  <2>1. /\ UNCHANGED <<pc, due, phase, trickled, closed, closedAt>>
        /\ now' = now + 1
    BY <1>3 DEF Tick, callVars, netVars, closing
  <2> QED
    BY <1>1, <2>1 DEF WindsUp, Before, ClientClosed
<1>4. CASE aclose
  <2>1. UNCHANGED <<pc, due, phase, trickled, now>> /\ closedAt' = now
    BY <1>4 DEF aclose, callVars, netVars
  <2>2. ASSUME pc[k] \in InRequest, ~trickled[k]
        PROVE  due[k] <= now + Before(k) * (TimeoutS + Lag) + TimeoutS
    <3>1. Before(k) * (TimeoutS + Lag) \in Nat
      BY <1>1, <2>2, LastOperation
    <3>2. due[k] <= now + TimeoutS
      BY <1>1, <2>2 DEF WindsUp
    <3> QED
      BY <1>1, <3>1, <3>2
  <2>3. pc[k] = "sleeping" => due[k] <= now + Request + MaxDelay
    BY <1>1 DEF WindsUp
  <2>4. Before(k)' = Before(k)
    BY <2>1 DEF Before
  <2> QED
    BY <1>1, <2>1, <2>2, <2>3, <2>4 DEF WindsUp
<1>5. CASE Terminated \/ UNCHANGED vars
  <2>1. UNCHANGED <<pc, due, phase, trickled, closed, closedAt, now>>
    BY <1>5 DEF Terminated, vars, callVars, netVars, closing
  <2> QED
    BY <1>1, <2>1 DEF WindsUp, Before, ClientClosed
<1> QED
  BY <1>2, <1>3, <1>4, <1>5 DEF Next

LEMMA WindsUpInTime == CInv => CloseBound
<1>1. ASSUME CInv, closed, OwnsClient, NEW c \in Active, ~trickled[c]
      PROVE  now - closedAt <= Request + Pause
  <2>1. /\ c \in Calls /\ pc[c] \in Timed /\ IInv /\ InTime(c) /\ WindsUp(c)
        /\ ClientClosed
        /\ now \in Nat /\ due[c] \in Nat /\ closedAt \in Nat
    BY <1>1 DEF CInv, TInv, IInv, TypeOK, Active, ClientClosed
  <2>2. now <= due[c] + Lag
    BY <2>1 DEF InTime
  <2>3. CASE pc[c] = "sleeping"
    <3>1. due[c] <= closedAt + Request + MaxDelay
      BY <1>1, <2>1, <2>3 DEF WindsUp
    <3> QED
      BY <2>1, <2>2, <3>1, Sizes DEF Pause
  <2>4. CASE pc[c] \in InRequest
    <3>1. due[c] <= closedAt + Before(c) * (TimeoutS + Lag) + TimeoutS
      BY <1>1, <2>1, <2>4 DEF WindsUp
    <3>2. /\ Before(c) * (TimeoutS + Lag) \in Nat
          /\ Before(c) * (TimeoutS + Lag) + TimeoutS + Lag <= Request
      BY <1>1, <2>1, <2>4, LastOperation
    <3> QED
      BY <2>1, <2>2, <3>1, <3>2, Sizes DEF Pause
  <2> QED
    BY <2>1, <2>3, <2>4 DEF Timed, InRequest
<1> QED
  BY <1>1 DEF CloseBound

(* Closing an owned client bounds what is left of every call under way to  *)
(* the request it has posted, granted a connection late or not, and one    *)
(* sleep, as long as that request does not trickle.                        *)
THEOREM ClosedSoonOver == Spec => []CloseBound
<1>1. Spec => []CInv
  BY InitWindsUp, NextWindsUp, PTL DEF Spec
<1> QED
  BY <1>1, WindsUpInTime, PTL
=============================================================================
