---------------------------- MODULE LedgerProofs ----------------------------
(***************************************************************************)
(* Theorems about Ledger for any number of loops, any prices and any token *)
(* counts a server may report.                                             *)
(*                                                                         *)
(* An entry's cost is never negative because record refuses more cached    *)
(* than prompt tokens wherever there is a price to apply.  The overspend   *)
(* is bounded by counting the loops the ledger has stopped, and, if all of *)
(* them ask first, by what is spent together with what is under way.  What *)
(* by_model holds is followed entry by entry.                              *)
(***************************************************************************)
EXTENDS Ledger, Counting

LEMMA CostIsNat ==
  ASSUME NEW m \in Models, NEW u \in UsageShape, RecordError(m, u) = None
  PROVE  Cost(m, u) \in Nat /\ (u.cached <= u.prompt \/ Prices[m] = None)
<1>1. CASE Prices[m] = None
  BY <1>1 DEF Cost
<1>2. CASE Prices[m] # None
  <2> DEFINE fresh == u.prompt - u.cached
             price == Prices[m]
  <2>1. /\ price.input \in Nat /\ price.output \in Nat
        /\ price.cached \in Nat \cup {None}
    BY <1>2, LedgerAssumption DEF PriceShape
  <2>2. /\ u.prompt \in Nat /\ u.completion \in Nat /\ u.cached \in Nat
        /\ fresh \in Nat
    BY <1>2, LedgerAssumption DEF RecordError, UsageShape
  <2>3. CachedRate(price) \in Nat
    BY <2>1 DEF CachedRate
  <2>4. \A a, b \in Nat : a * b \in Nat
    OBVIOUS
  <2>5. Cost(m, u) = price.input * fresh + CachedRate(price) * u.cached
                       + price.output * u.completion
    BY <1>2 DEF Cost, cost_usd
  <2>6. u.cached <= u.prompt
    BY <2>2
  <2> HIDE DEF fresh, price
  <2>7. /\ price.input * fresh \in Nat /\ CachedRate(price) * u.cached \in Nat
        /\ price.output * u.completion \in Nat
    BY <2>1, <2>2, <2>3, <2>4
  <2> QED
    BY <2>5, <2>6, <2>7
<1> QED
  BY <1>1, <1>2

(* The entries record may append                                           *)
Recorded ==
  {e \in [model : Models, prompt : Int, completion : Int, cached : Int, cost : Nat] :
     e.cached <= e.prompt \/ Prices[e.model] = None}

IInv ==
  /\ entries \in Seq(Recorded)
  /\ call \in [Agents -> [model : Models, usage : Usages] \cup {None}]
  /\ raised \in [Agents -> Errors \cup {None}]
  /\ asks \in [Agents -> BOOLEAN]

LEMMA InitInvariant == Init => IInv
  BY DEF Init, IInv

LEMMA ChargeInvariant == \A a \in Agents : IInv /\ Charge(a) => IInv'
<1> SUFFICES ASSUME NEW a \in Agents, IInv, Charge(a)
             PROVE  IInv'
  OBVIOUS
<1> DEFINE m == call[a].model
           u == call[a].usage
           error == RecordError(m, u)
<1>1. m \in Models /\ u \in UsageShape
  BY LedgerAssumption DEF IInv, Charge
<1>2. /\ call' \in [Agents -> [model : Models, usage : Usages] \cup {None}]
      /\ asks' = asks
  BY DEF IInv, Charge
<1>3. CASE error # None /\ raised' = [raised EXCEPT ![a] = error] /\ UNCHANGED entries
  <2>1. error \in Errors
    BY <1>3 DEF RecordError, Errors
  <2> QED
    BY <1>2, <1>3, <2>1 DEF IInv
<1>4. CASE /\ error = None
           /\ entries' = Append(entries, Entry(m, u))
           /\ raised' = [raised EXCEPT ![a] = IF Broken(entries, entries')
                                             THEN "BudgetExceeded" ELSE None]
  <2>1. Entry(m, u) \in Recorded
    BY <1>1, <1>4, CostIsNat DEF Entry, Recorded, UsageShape
  <2>2. entries' \in Seq(Recorded)
    BY <1>4, <2>1 DEF IInv
  <2>3. raised' \in [Agents -> Errors \cup {None}]
    BY <1>4 DEF IInv, Errors
  <2> QED
    BY <1>2, <2>2, <2>3 DEF IInv
<1> QED
  BY <1>3, <1>4 DEF Charge, Heard

LEMMA NextInvariant == IInv /\ [Next]_vars => IInv'
<1> SUFFICES ASSUME IInv, [Next]_vars PROVE IInv'
  OBVIOUS
<1>1. ASSUME NEW a \in Agents, NEW m \in Models, NEW u \in Usages, Call(a, m, u)
      PROVE  IInv'
  <2>1. /\ raised' = [raised EXCEPT ![a] = "declined"] \/ raised' = raised
        /\ call' = [call EXCEPT ![a] = [model |-> m, usage |-> u]] \/ call' = call
        /\ entries' = entries /\ asks' = asks
    BY <1>1 DEF Call
  <2>2. call' \in [Agents -> [model : Models, usage : Usages] \cup {None}]
    BY <2>1 DEF IInv
  <2>3. raised' \in [Agents -> Errors \cup {None}]
    BY <2>1 DEF IInv, Errors
  <2> QED
    BY <2>1, <2>2, <2>3 DEF IInv
<1>2. ASSUME NEW a \in Agents, Charge(a) PROVE IInv'
  BY <1>2, ChargeInvariant
<1>3. CASE Idle \/ UNCHANGED vars
  BY <1>3 DEF IInv, Idle, vars
<1> QED
  BY <1>1, <1>2, <1>3 DEF Next

(* However the loops interleave and whatever a server reports, no entry    *)
(* has a negative cost or more cached than prompt tokens at a price.       *)
THEOREM TypeCorrect == Spec => []TypeOK
<1>1. ASSUME IInv PROVE TypeOK
  <2>1. \A e \in Recorded :
           /\ e.model \in Models /\ e.cost \in Nat
           /\ e.cached <= e.prompt \/ Prices[e.model] = None
    BY DEF Recorded
  <2>2. Range(entries) \subseteq Recorded
    BY <1>1 DEF IInv, Range
  <2> QED
    BY <1>1, <2>1, <2>2 DEF IInv, TypeOK
<1> QED
  BY <1>1, InitInvariant, NextInvariant, PTL DEF Spec

-----------------------------------------------------------------------------
(* What record may charge is at most MaxCost.                              *)
LEMMA CostBounded ==
  /\ MaxCost \in Nat
  /\ \A m \in Models, u \in Usages : RecordError(m, u) = None => Cost(m, u) <= MaxCost
<1> DEFINE Paid == {Cost(p[1], p[2]) : p \in Payable}
           price == [p \in Payable |-> Cost(p[1], p[2])]
<1>1. IsFiniteSet(Payable)
  <2>1. IsFiniteSet(Models \X Usages)
    BY FS_Product, LedgerAssumption
  <2> QED
    BY <2>1, FS_Subset DEF Payable
<1>2. IsFiniteSet(Paid)
  <2>1. price \in Surjection(Payable, Paid)
    BY DEF Surjection
  <2> HIDE DEF price, Paid
  <2> QED
    BY <1>1, <2>1, FS_Surjection
<1>3. Paid \in SUBSET Nat
  <2>1. ASSUME NEW p \in Payable PROVE Cost(p[1], p[2]) \in Nat
    <3>1. p[1] \in Models /\ p[2] \in UsageShape /\ RecordError(p[1], p[2]) = None
      BY LedgerAssumption DEF Payable
    <3> QED
      BY <3>1, CostIsNat
  <2> QED
    BY <2>1
<1>4. \A m \in Models, u \in Usages : RecordError(m, u) = None => Cost(m, u) \in Paid
  <2>1. ASSUME NEW m \in Models, NEW u \in Usages, RecordError(m, u) = None
        PROVE  Cost(m, u) \in Paid
    <3>1. <<m, u>> \in Payable
      BY <2>1 DEF Payable
    <3>2. Cost(<<m, u>>[1], <<m, u>>[2]) \in Paid
      BY <3>1
    <3> QED
      BY <3>2
  <2> QED
    BY <2>1
<1>5. MaxCost = Max({0} \cup Paid)
  BY DEF MaxCost
<1> HIDE DEF Paid
<1>6. IsFiniteSet({0} \cup Paid)
  BY <1>2, FS_Singleton, FS_Union
<1>7. \E c \in {0} \cup Paid : \A d \in {0} \cup Paid : d <= c
  BY <1>3, <1>6, FiniteMax
<1>8. \E c \in {0} \cup Paid : \A d \in {0} \cup Paid : c >= d
  BY <1>3, <1>7
<1>9. MaxCost \in {0} \cup Paid /\ \A d \in {0} \cup Paid : MaxCost >= d
  BY <1>5, <1>8 DEF Max
<1>10. MaxCost \in Nat /\ \A d \in Paid : d <= MaxCost
  BY <1>3, <1>9
<1> QED
  BY <1>4, <1>10

(* An entry appended adds its cost to the total, and to no other sum.      *)
LEMMA CostsAppended ==
  ASSUME NEW es \in Seq(Recorded), NEW e \in Recorded
  PROVE  /\ DOMAIN es = 1 .. Len(es) /\ Len(es) \in Nat
         /\ DOMAIN Append(es, e) = (DOMAIN es) \cup {Len(es) + 1}
         /\ Len(es) + 1 \notin DOMAIN es
         /\ IsFiniteSet(DOMAIN es)
         /\ \A i \in DOMAIN es : /\ Append(es, e)[i] = es[i]
                                 /\ Costs(es)[i] \in Nat
                                 /\ Costs(Append(es, e))[i] = Costs(es)[i]
         /\ Append(es, e)[Len(es) + 1] = e
         /\ Costs(Append(es, e))[Len(es) + 1] = e.cost /\ e.cost \in Nat
<1>1. DOMAIN es = 1 .. Len(es) /\ Len(es) \in Nat
  OBVIOUS
<1>2. DOMAIN Append(es, e) = (DOMAIN es) \cup {Len(es) + 1} /\ Len(es) + 1 \notin DOMAIN es
  BY <1>1
<1>3. IsFiniteSet(1 .. Len(es))
  BY <1>1, FS_Interval
<1>4. e.cost \in Nat /\ \A i \in DOMAIN es : es[i].cost \in Nat
  BY DEF Recorded
<1>5. /\ \A i \in DOMAIN es : Append(es, e)[i] = es[i]
      /\ Append(es, e)[Len(es) + 1] = e
  BY <1>1
<1>6. /\ \A i \in DOMAIN es : Costs(es)[i] = es[i].cost
      /\ \A i \in DOMAIN Append(es, e) : Costs(Append(es, e))[i] = Append(es, e)[i].cost
  BY DEF Costs
<1> QED
  BY <1>1, <1>2, <1>3, <1>4, <1>5, <1>6

LEMMA TotalAppended ==
  ASSUME NEW es \in Seq(Recorded), NEW e \in Recorded
  PROVE  /\ Total(es) \in Nat /\ e.cost \in Nat
         /\ Total(Append(es, e)) = Total(es) + e.cost
<1> DEFINE D == DOMAIN es
           n == Len(es) + 1
           f == Costs(es)
           g == Costs(Append(es, e))
<1>1. /\ IsFiniteSet(D) /\ n \notin D
      /\ \A i \in D : f[i] \in Nat /\ g[i] = f[i]
      /\ g[n] = e.cost /\ e.cost \in Nat
  BY CostsAppended
<1>2. Total(es) = SumFunctionOnSet(f, D)
  BY DEF Total, SumFunction, Costs
<1>3. Total(Append(es, e)) = SumFunctionOnSet(g, D \cup {n})
  BY CostsAppended DEF Total, SumFunction, Costs
<1> HIDE DEF D, n, f, g
<1>4. SumFunctionOnSet(g, D \cup {n}) = g[n] + SumFunctionOnSet(g, D)
  BY <1>1, SumAdd
<1>5. SumFunctionOnSet(g, D) = SumFunctionOnSet(f, D)
  BY <1>1, SumSame
<1>6. SumFunctionOnSet(f, D) \in Nat
  BY <1>1, SumType
<1> QED
  BY <1>1, <1>2, <1>3, <1>4, <1>5, <1>6

LEMMA TotalIsNat == ASSUME IInv PROVE total_decimal \in Nat
<1>1. /\ IsFiniteSet(DOMAIN entries)
      /\ \A i \in DOMAIN entries : Costs(entries)[i] \in Nat
  <2>1. DOMAIN entries = 1 .. Len(entries) /\ Len(entries) \in Nat
    BY DEF IInv
  <2>2. IsFiniteSet(1 .. Len(entries))
    BY <2>1, FS_Interval
  <2> QED
    BY <2>1, <2>2 DEF IInv, Costs, Recorded
<1>2. total_decimal = SumFunctionOnSet(Costs(entries), DOMAIN entries)
  BY DEF total_decimal, Total, SumFunction, Costs
<1> QED
  BY <1>1, <1>2, SumType

-----------------------------------------------------------------------------
(* What the call a loop has under way will add to the ledger               *)
Pending ==
  [a \in Agents |->
     IF call[a] # None /\ RecordError(call[a].model, call[a].usage) = None
     THEN Cost(call[a].model, call[a].usage) ELSE 0]

Broke == {a \in Agents : raised[a] = "BudgetExceeded"}

OneAtATime == \A a \in Agents : call[a] # None => raised[a] = None

(* Each loop that the ledger has stopped went beyond the budget, or what   *)
(* was beyond it already, by one call.                                     *)
Overspent ==
  Budget # None => total_decimal <= Budget + Cardinality(Broke) * MaxCost

(* If every loop asks, the calls under way are within the budget but for   *)
(* those of all loops but the last one that asked.                         *)
Committed ==
  (Budget # None /\ AllAsk) =>
    total_decimal + SumFunctionOnSet(Pending, Agents)
      <= Budget + (Cardinality(Agents) - 1) * MaxCost

SpendInv == OneAtATime /\ Overspent /\ Committed

(* What one charge does.                                                   *)
LEMMA Charged ==
  ASSUME IInv, NEW a \in Agents, Charge(a)
  PROVE  /\ call[a].model \in Models /\ call[a].usage \in Usages
         /\ call' = [call EXCEPT ![a] = None] /\ asks' = asks
         /\ total_decimal' = total_decimal + Pending[a]
         /\ \/ /\ RecordError(call[a].model, call[a].usage) # None
               /\ raised'[a] # "BudgetExceeded"
            \/ /\ RecordError(call[a].model, call[a].usage) = None
               /\ raised'[a] = IF OverBudget(total_decimal') THEN "BudgetExceeded" ELSE None
         /\ \A b \in Agents \ {a} : raised'[b] = raised[b]
<1> DEFINE m == call[a].model
           u == call[a].usage
<1>1. /\ call[a] # None /\ m \in Models /\ u \in Usages /\ u \in UsageShape
      /\ call' = [call EXCEPT ![a] = None] /\ asks' = asks
  BY LedgerAssumption DEF IInv, Charge
<1>2. CASE RecordError(m, u) # None /\ entries' = entries
             /\ raised' = [raised EXCEPT ![a] = Heard(RecordError(m, u))]
  <2>1. total_decimal' = total_decimal /\ Pending[a] = 0
    BY <1>2 DEF total_decimal, Pending
  <2>2. raised'[a] # "BudgetExceeded"
    BY <1>2 DEF Heard, RecordError, IInv
  <2> QED
    BY <1>1, <1>2, <2>1, <2>2, TotalIsNat DEF IInv
<1>3. CASE /\ RecordError(m, u) = None
           /\ entries' = Append(entries, Entry(m, u))
           /\ raised' = [raised EXCEPT ![a] = IF Broken(entries, entries')
                                             THEN "BudgetExceeded" ELSE None]
  <2>1. Entry(m, u) \in Recorded
    BY <1>1, <1>3, CostIsNat DEF Entry, Recorded, UsageShape
  <2>2. total_decimal' = total_decimal + Entry(m, u).cost
    BY <1>3, <2>1, TotalAppended DEF IInv, total_decimal
  <2>3. Pending[a] = Entry(m, u).cost
    BY <1>1, <1>3 DEF Pending, Entry
  <2>4. Broken(entries, entries') = OverBudget(total_decimal')
    BY DEF Broken, total_decimal
  <2> QED
    BY <1>1, <1>3, <2>2, <2>3, <2>4 DEF IInv
<1> QED
  BY <1>2, <1>3 DEF Charge

PendingTyped == \A a \in Agents : Pending[a] \in Nat

LEMMA PendingType ==
  ASSUME IInv
  PROVE  /\ \A a \in Agents : Pending[a] \in Nat /\ Pending[a] <= MaxCost
         /\ IsFiniteSet(Agents) /\ Cardinality(Agents) \in Nat /\ Cardinality(Agents) >= 1
         /\ SumFunctionOnSet(Pending, Agents) \in Nat
<1>1. ASSUME NEW a \in Agents PROVE Pending[a] \in Nat /\ Pending[a] <= MaxCost
  <2>1. CASE call[a] # None /\ RecordError(call[a].model, call[a].usage) = None
    <3>1. /\ call[a].model \in Models /\ call[a].usage \in Usages
          /\ call[a].usage \in UsageShape
      BY <2>1, LedgerAssumption DEF IInv
    <3> QED
      BY <2>1, <3>1, CostIsNat, CostBounded DEF Pending
  <2>2. CASE ~(call[a] # None /\ RecordError(call[a].model, call[a].usage) = None)
    BY <2>2, CostBounded DEF Pending
  <2> QED
    BY <2>1, <2>2
<1>2. IsFiniteSet(Agents) /\ Cardinality(Agents) \in Nat /\ Cardinality(Agents) >= 1
  BY LedgerAssumption, FS_CardinalityType, FS_EmptySet
<1> QED
  BY <1>1, <1>2, SumType

LEMMA PendingTypes == IInv => PendingTyped
  BY PendingType DEF PendingTyped

(* The sum of what is pending, if the call of one loop changes.            *)
LEMMA PendingChanges ==
  ASSUME IInv, IInv', NEW a \in Agents, \A b \in Agents \ {a} : call'[b] = call[b]
  PROVE  /\ SumFunctionOnSet(Pending, Agents \ {a}) \in Nat
         /\ SumFunctionOnSet(Pending, Agents \ {a}) <= (Cardinality(Agents) - 1) * MaxCost
         /\ SumFunctionOnSet(Pending, Agents)
              = Pending[a] + SumFunctionOnSet(Pending, Agents \ {a})
         /\ SumFunctionOnSet(Pending', Agents)
              = Pending'[a] + SumFunctionOnSet(Pending, Agents \ {a})
<1> DEFINE R == Agents \ {a}
<1>1. /\ IsFiniteSet(Agents) /\ \A b \in Agents : Pending[b] \in Nat /\ Pending[b] <= MaxCost
  BY PendingType
<1>2. \A b \in Agents : Pending'[b] \in Nat
  <2>1. (IInv => PendingTyped)'
    BY PendingTypes, PTL
  <2> QED
    BY <2>1 DEF PendingTyped
<1>3. \A b \in R : Pending'[b] = Pending[b]
  BY DEF Pending
<1>4. IsFiniteSet(R) /\ Cardinality(R) = Cardinality(Agents) - 1
  BY <1>1, FS_RemoveElement
<1>5. SumFunctionOnSet(Pending, R) \in Nat
  BY <1>1, <1>4, SumType
<1>6. SumFunctionOnSet(Pending, R) <= Cardinality(R) * MaxCost
  BY <1>1, <1>4, CostBounded, SumBound
<1>7. SumFunctionOnSet(Pending', R) = SumFunctionOnSet(Pending, R)
  BY <1>1, <1>3, <1>4, SumSame
<1>8. /\ SumFunctionOnSet(Pending, Agents) = Pending[a] + SumFunctionOnSet(Pending, R)
      /\ SumFunctionOnSet(Pending', Agents) = Pending'[a] + SumFunctionOnSet(Pending', R)
  BY <1>1, <1>2, SumRemove
<1> QED
  BY <1>4, <1>5, <1>6, <1>7, <1>8

LEMMA InitSpend == Init => SpendInv
<1> SUFFICES ASSUME Init PROVE SpendInv
  OBVIOUS
<1>1. IInv
  BY InitInvariant
<1>2. total_decimal = 0
  <2>1. DOMAIN Costs(entries) = {}
    BY DEF Init, Costs
  <2> QED
    BY <2>1, SumEmpty DEF total_decimal, Total, SumFunction
<1>3. OneAtATime /\ Broke = {}
  BY LedgerAssumption DEF Init, OneAtATime, Broke
<1>4. Cardinality(Broke) * MaxCost = 0
  <2>1. Cardinality(Broke) = 0
    BY <1>3, FS_EmptySet
  <2> QED
    BY <2>1, CostBounded
<1>5. SumFunctionOnSet(Pending, Agents) = 0
  <2>1. \A a \in Agents : Pending[a] \in Nat /\ Pending[a] <= 0
    BY DEF Init, Pending
  <2>2. SumFunctionOnSet(Pending, Agents) <= Cardinality(Agents) * 0
    BY <1>1, <2>1, PendingType, SumBound
  <2> QED
    BY <1>1, <2>2, PendingType
<1>6. (Cardinality(Agents) - 1) * MaxCost \in Nat
  BY <1>1, PendingType, CostBounded, Products
<1> QED
  BY <1>2, <1>3, <1>4, <1>5, <1>6, LedgerAssumption DEF SpendInv, Overspent, Committed

(* A charge turns what was pending into spent, and a loop it takes beyond  *)
(* the budget is stopped.                                                  *)
LEMMA ChargeSpend ==
  ASSUME IInv, IInv', SpendInv, NEW a \in Agents, Charge(a)
  PROVE  SpendInv'
<1>1. /\ call[a] # None /\ raised[a] = None /\ asks' = asks
      /\ call' = [call EXCEPT ![a] = None] /\ call \in [Agents -> [model : Models, usage : Usages] \cup {None}]
      /\ total_decimal \in Nat /\ total_decimal' = total_decimal + Pending[a]
      /\ Pending[a] \in Nat /\ Pending[a] <= MaxCost /\ MaxCost \in Nat
      /\ \A b \in Agents \ {a} : raised'[b] = raised[b]
  BY Charged, TotalIsNat, PendingType, CostBounded DEF SpendInv, OneAtATime, IInv, Charge
<1>2. OneAtATime'
  BY <1>1 DEF SpendInv, OneAtATime
<1>3. Overspent'
  <2>1. IsFiniteSet(Broke) /\ Cardinality(Broke) \in Nat /\ a \notin Broke
    <3>1. Broke \in SUBSET Agents /\ a \notin Broke
      BY <1>1, LedgerAssumption DEF Broke
    <3> QED
      BY <3>1, PendingType, FS_Subset, FS_CardinalityType
  <2>2. Cardinality(Broke) * MaxCost \in Nat
    BY <1>1, <2>1, Products
  <2>3. CASE raised'[a] = "BudgetExceeded"
    <3>1. Broke' = Broke \cup {a}
      BY <1>1, <2>3 DEF Broke
    <3>2. Cardinality(Broke') = Cardinality(Broke) + 1
      BY <2>1, <3>1, FS_AddElement
    <3>3. Cardinality(Broke') * MaxCost = Cardinality(Broke) * MaxCost + MaxCost
      BY <1>1, <2>1, <3>2, Products
    <3> QED
      BY <1>1, <2>2, <3>3, LedgerAssumption DEF SpendInv, Overspent
  <2>4. CASE raised'[a] # "BudgetExceeded"
    <3>1. Broke' = Broke
      BY <1>1, <2>1, <2>4 DEF Broke
    <3>2. total_decimal' = total_decimal \/ ~OverBudget(total_decimal')
      BY <1>1, <2>4, Charged DEF Pending
    <3> QED
      BY <1>1, <2>2, <3>1, <3>2, LedgerAssumption DEF SpendInv, Overspent, OverBudget
  <2> QED
    BY <2>3, <2>4
<1>4. Committed'
  <2>1. Pending'[a] = 0
    BY <1>1 DEF Pending
  <2>2. total_decimal' + SumFunctionOnSet(Pending', Agents)
          = total_decimal + SumFunctionOnSet(Pending, Agents)
    <3> DEFINE others == SumFunctionOnSet(Pending, Agents \ {a})
    <3>1. \A b \in Agents \ {a} : call'[b] = call[b]
      BY <1>1
    <3>2. /\ others \in Nat /\ SumFunctionOnSet(Pending, Agents) = Pending[a] + others
          /\ SumFunctionOnSet(Pending', Agents) = Pending'[a] + others
      BY <3>1, PendingChanges
    <3> HIDE DEF others
    <3> QED
      BY <1>1, <2>1, <3>2
  <2> QED
    BY <1>1, <2>2 DEF SpendInv, Committed, AllAsk
<1> QED
  BY <1>2, <1>3, <1>4 DEF SpendInv

(* A loop that asks commits itself only to what the budget still holds,    *)
(* whatever the others have under way.                                     *)
LEMMA CallSpend ==
  ASSUME IInv, IInv', SpendInv,
         NEW a \in Agents, NEW m \in Models, NEW u \in Usages, Call(a, m, u)
  PROVE  SpendInv'
<1>1. /\ call[a] = None /\ raised[a] = None
      /\ call \in [Agents -> [model : Models, usage : Usages] \cup {None}]
      /\ raised \in [Agents -> Errors \cup {None}]
      /\ asks' = asks /\ total_decimal' = total_decimal /\ total_decimal \in Nat
  BY TotalIsNat DEF Call, IInv, total_decimal
<1>2. CASE asks[a] /\ raised' = [raised EXCEPT ![a] = "declined"] /\ UNCHANGED call
  <2>1. Broke' = Broke /\ Pending' = Pending
    BY <1>1, <1>2, LedgerAssumption DEF Broke, Pending
  <2>2. OneAtATime'
    BY <1>1, <1>2 DEF SpendInv, OneAtATime
  <2> QED
    BY <1>1, <2>1, <2>2 DEF SpendInv, Overspent, Committed, AllAsk
<1>3. CASE /\ ~(asks[a] /\ would_exceed(Cost(m, u)))
           /\ call' = [call EXCEPT ![a] = [model |-> m, usage |-> u]]
           /\ UNCHANGED raised
  <2>1. OneAtATime' /\ Broke' = Broke
    BY <1>1, <1>3 DEF SpendInv, OneAtATime, Broke
  <2>2. Overspent'
    BY <1>1, <2>1 DEF SpendInv, Overspent
  <2> DEFINE others == SumFunctionOnSet(Pending, Agents \ {a})
             bound == (Cardinality(Agents) - 1) * MaxCost
  <2>3. /\ others \in Nat /\ others <= bound
        /\ SumFunctionOnSet(Pending, Agents) = Pending[a] + others
        /\ SumFunctionOnSet(Pending', Agents) = Pending'[a] + others
    <3>1. \A b \in Agents \ {a} : call'[b] = call[b]
      BY <1>1, <1>3
    <3> QED
      BY <3>1, PendingChanges
  <2>4. bound \in Nat
    BY PendingType, CostBounded, Products
  <2>5. Pending[a] = 0
    BY <1>1 DEF Pending
  <2>6. \/ Pending'[a] = 0
        \/ Pending'[a] = Cost(m, u) /\ Cost(m, u) \in Nat
    <3>1. call'[a] = [model |-> m, usage |-> u]
      BY <1>1, <1>3
    <3>2. RecordError(m, u) = None => Cost(m, u) \in Nat
      BY CostIsNat, LedgerAssumption
    <3> QED
      BY <3>1, <3>2 DEF Pending
  <2> HIDE DEF others, bound
  <2>7. ASSUME Budget # None, AllAsk
        PROVE  total_decimal + SumFunctionOnSet(Pending', Agents) <= Budget + bound
    <3>1. CASE Pending'[a] = 0
      BY <2>3, <2>5, <2>7, <3>1 DEF SpendInv, Committed, bound
    <3>2. CASE Pending'[a] = Cost(m, u) /\ Cost(m, u) \in Nat
      <4>1. total_decimal + Cost(m, u) <= Budget
        BY <1>1, <1>3, <2>7, <3>2, LedgerAssumption DEF AllAsk, would_exceed, OverBudget
      <4> QED
        BY <1>1, <2>3, <2>4, <2>7, <3>2, <4>1, LedgerAssumption
    <3> QED
      BY <2>6, <3>1, <3>2
  <2>8. Committed'
    BY <1>1, <2>7 DEF Committed, AllAsk, bound
  <2> QED
    BY <2>1, <2>2, <2>8 DEF SpendInv
<1> QED
  BY <1>2, <1>3 DEF Call

LEMMA NextSpend == IInv /\ SpendInv /\ [Next]_vars => SpendInv'
<1> SUFFICES ASSUME IInv, SpendInv, [Next]_vars PROVE SpendInv'
  OBVIOUS
<1>1. IInv'
  BY NextInvariant
<1>2. CASE Idle \/ UNCHANGED vars
  BY <1>2 DEF Idle, vars, SpendInv, OneAtATime, Overspent, Committed, Broke, Pending, AllAsk,
     total_decimal
<1> QED
  BY <1>1, <1>2, ChargeSpend, CallSpend DEF Next

LEMMA SpendBounded == IInv /\ SpendInv => OverspendBound
<1> SUFFICES ASSUME IInv, SpendInv, Budget # None
             PROVE  total_decimal <=
                      Budget + (IF AllAsk THEN Cardinality(Agents) - 1
                                         ELSE Cardinality(Agents)) * MaxCost
  BY DEF OverspendBound
<1>1. /\ total_decimal \in Nat /\ MaxCost \in Nat /\ Budget \in Nat
      /\ IsFiniteSet(Agents) /\ Cardinality(Agents) \in Nat
      /\ SumFunctionOnSet(Pending, Agents) \in Nat
  BY TotalIsNat, CostBounded, PendingType, LedgerAssumption
<1>2. CASE AllAsk
  <2>1. Cardinality(Agents) - 1 \in Nat
    BY PendingType
  <2>2. (Cardinality(Agents) - 1) * MaxCost \in Nat
    BY <1>1, <2>1, Products
  <2> QED
    BY <1>1, <1>2, <2>2 DEF SpendInv, Committed
<1>3. CASE ~AllAsk
  <2>1. Cardinality(Broke) \in Nat /\ Cardinality(Broke) <= Cardinality(Agents)
    <3>1. Broke \in SUBSET Agents
      BY DEF Broke
    <3> QED
      BY <1>1, <3>1, FS_Subset, FS_CardinalityType
  <2>2. /\ Cardinality(Broke) * MaxCost <= Cardinality(Agents) * MaxCost
        /\ Cardinality(Broke) * MaxCost \in Nat /\ Cardinality(Agents) * MaxCost \in Nat
    BY <1>1, <2>1, Products
  <2> QED
    BY <1>1, <1>3, <2>2 DEF SpendInv, Overspent
<1> QED
  BY <1>2, <1>3

(* However many loops share a ledger, what they spend beyond its budget is *)
(* at most one call each, and one call less if each asks would_exceed      *)
(* before it calls, though the answer may be stale when the call is        *)
(* charged.                                                                *)
THEOREM OverspendBounded == Spec => []OverspendBound
  BY SpendBounded, InitInvariant, NextInvariant, InitSpend, NextSpend, PTL DEF Spec

(* check_budget and would_exceed draw the same line, at every total and    *)
(* every cost.                                                             *)
THEOREM SameLine == Spec => PreflightAgrees
<1>1. ASSUME IInv, [Next]_vars, NEW a \in Agents, call[a] # None, call'[a] = None,
             RecordError(call[a].model, call[a].usage) = None
      PROVE  raised'[a] = "BudgetExceeded" <=> would_exceed(Cost(call[a].model, call[a].usage))
  <2>1. Charge(a)
    <3>1. ASSUME NEW b \in Agents, NEW m \in Models, NEW u \in Usages, Call(b, m, u)
          PROVE  FALSE
      BY <1>1, <3>1 DEF Call, IInv
    <3>2. ASSUME NEW b \in Agents, Charge(b) PROVE b = a
      BY <1>1, <3>2 DEF Charge, IInv
    <3>3. ~(Idle \/ UNCHANGED vars)
      BY <1>1 DEF Idle, vars
    <3> QED
      BY <1>1, <3>1, <3>2, <3>3 DEF Next
  <2>2. /\ total_decimal' = total_decimal + Pending[a]
        /\ raised'[a] = IF OverBudget(total_decimal') THEN "BudgetExceeded" ELSE None
    BY <1>1, <2>1, Charged
  <2>3. Pending[a] = Cost(call[a].model, call[a].usage)
    BY <1>1 DEF Pending
  <2> QED
    BY <2>2, <2>3, LedgerAssumption DEF would_exceed
<1>2. IInv /\ [Next]_vars =>
        [\A a \in Agents :
           (call[a] # None /\ call'[a] = None
              /\ RecordError(call[a].model, call[a].usage) = None)
             => (raised'[a] = "BudgetExceeded"
                   <=> would_exceed(Cost(call[a].model, call[a].usage)))]_vars
  BY <1>1
<1> QED
  BY <1>2, InitInvariant, NextInvariant, PTL DEF Spec, PreflightAgrees

-----------------------------------------------------------------------------
(* What one entry does to by_model, and by_model as a fold whose parts     *)
(* have names                                                              *)
Nothing == [m \in {} |-> 0]

Add(out, e) ==
  [m \in DOMAIN out \cup {e.model} |->
     (IF m \in DOMAIN out THEN out[m] ELSE 0) + (IF m = e.model THEN e.cost ELSE 0)]

Folded(es, it, T) == IF T = {} THEN Nothing ELSE Add(it[T \ {Max(T)}], es[Max(T)])

Folding(es, it) == it = [T \in SUBSET DOMAIN es |-> Folded(es, it, T)]

Attribution(es) == CHOOSE it : Folding(es, it)

ByModel(es) == Attribution(es)[DOMAIN es]

SpentIn(es, m) == SumFunctionOnSet(Costs(es), {i \in DOMAIN es : es[i].model = m})

Amounts == UNION {[M -> Nat] : M \in SUBSET Models}

LEMMA ByModelIsFold == by_model = ByModel(entries)
  BY DEF by_model, FoldLeft, MapThenFoldSet, ByModel, Attribution, Folding, Folded, Add, Nothing

LEMMA AddType ==
  ASSUME NEW out \in Amounts, NEW e \in Recorded
  PROVE  Add(out, e) \in Amounts
<1>1. PICK M \in SUBSET Models : out \in [M -> Nat]
  BY DEF Amounts
<1>2. e.model \in Models /\ e.cost \in Nat
  BY DEF Recorded
<1>3. M \cup {e.model} \in SUBSET Models
  BY <1>2
<1>4. \A m \in M \cup {e.model} :
         (IF m \in M THEN out[m] ELSE 0) + (IF m = e.model THEN e.cost ELSE 0) \in Nat
  BY <1>1, <1>2
<1>5. Add(out, e) \in [M \cup {e.model} -> Nat]
  BY <1>1, <1>4 DEF Add
<1> QED
  BY <1>3, <1>5 DEF Amounts

LEMMA MaxIsIn ==
  ASSUME NEW T \in SUBSET Nat, IsFiniteSet(T), T # {}
  PROVE  Max(T) \in T /\ \A n \in T : n <= Max(T)
<1>1. \E x \in T : \A y \in T : x >= y
  BY FiniteMax
<1> QED
  BY <1>1 DEF Max

LEMMA AttributionExists ==
  ASSUME NEW es \in Seq(Recorded)
  PROVE  Folding(es, Attribution(es))
<1> DEFINE D == DOMAIN es
           c == [T \in SUBSET D |-> Max(T)]
           G == [p \in (SUBSET D) \X Amounts |->
                   IF p[1] = {} THEN Nothing ELSE Add(p[2], es[c[p[1]]])]
<1>1. IsFiniteSet(D) /\ D \subseteq Nat
  <2>1. D = 1 .. Len(es) /\ Len(es) \in Nat
    OBVIOUS
  <2>2. IsFiniteSet(1 .. Len(es))
    BY <2>1, FS_Interval
  <2> QED
    BY <2>1, <2>2
<1>2. ASSUME NEW T \in SUBSET D, T # {} PROVE c[T] = Max(T) /\ c[T] \in T
  <2>1. IsFiniteSet(T) /\ T \in SUBSET Nat
    BY <1>1, FS_Subset
  <2> QED
    BY <1>2, <2>1, MaxIsIn
<1>3. Nothing \in Amounts
  <2>1. Nothing \in [{} -> Nat] /\ {} \in SUBSET Models
    BY DEF Nothing
  <2> QED
    BY <2>1 DEF Amounts
<1>4. G \in [(SUBSET D) \X Amounts -> Amounts]
  <2>1. ASSUME NEW p \in (SUBSET D) \X Amounts
        PROVE  (IF p[1] = {} THEN Nothing ELSE Add(p[2], es[c[p[1]]])) \in Amounts
    <3>1. p[1] \in SUBSET D /\ p[2] \in Amounts
      OBVIOUS
    <3>2. p[1] # {} => c[p[1]] \in D
      BY <1>2, <3>1
    <3> HIDE DEF c
    <3>3. p[1] # {} => es[c[p[1]]] \in Recorded
      BY <3>2
    <3> QED
      BY <1>3, <3>1, <3>3, AddType
  <2> HIDE DEF c
  <2> QED
    BY <2>1
<1>5. \A T \in SUBSET D, v \in Amounts : T # {} => G[<<T, v>>] = Add(v, es[c[T]])
  OBVIOUS
<1> HIDE DEF c, G
<1>6. Picks(c, D)
  BY <1>2 DEF Picks
<1>7. PICK it \in [SUBSET D -> Amounts] : IsFold(it, D, c, Nothing, G)
  BY <1>1, <1>3, <1>4, <1>6, RecursionExists
<1>8. ASSUME NEW T \in SUBSET D PROVE it[T] = Folded(es, it, T)
  <2>1. it[T \ {c[T]}] \in Amounts
    OBVIOUS
  <2> QED
    BY <1>2, <1>5, <1>7, <2>1 DEF Folded, IsFold
<1>9. Folding(es, it)
  BY <1>8 DEF Folding
<1>10. \E g : Folding(es, g)
  BY <1>9
<1> QED
  BY <1>10, Zenon DEF Attribution

(* by_model takes the entries in the order in which record appended them.  *)
LEMMA ByModelAppended ==
  ASSUME NEW es \in Seq(Recorded), NEW e \in Recorded
  PROVE  ByModel(Append(es, e)) = Add(ByModel(es), e)
<1> DEFINE D == DOMAIN es
           n == Len(es) + 1
           fs == Append(es, e)
           g == Attribution(fs)
           h == Attribution(es)
           c == [T \in SUBSET D |-> Max(T)]
<1>1. /\ IsFiniteSet(D) /\ D = 1 .. Len(es) /\ Len(es) \in Nat
      /\ DOMAIN fs = D \cup {n} /\ n \notin D /\ fs \in Seq(Recorded)
      /\ (\A i \in D : fs[i] = es[i]) /\ fs[n] = e
  BY CostsAppended
<1>2. Folding(fs, g) /\ Folding(es, h)
  BY <1>1, AttributionExists
<1> HIDE DEF fs, g, h
<1>3. ASSUME NEW T \in SUBSET D PROVE g[T] = Folded(fs, g, T) /\ h[T] = Folded(es, h, T)
  <2>1. T \in SUBSET DOMAIN fs
    BY <1>1
  <2> QED
    BY <1>2, <2>1 DEF Folding
<1>4. ASSUME NEW T \in SUBSET D, T # {} PROVE c[T] = Max(T) /\ c[T] \in T
  <2>1. IsFiniteSet(T) /\ T \in SUBSET Nat
    BY <1>1, FS_Subset
  <2> QED
    BY <1>4, <2>1, MaxIsIn
<1> HIDE DEF c
<1>5. g[D] = h[D]
  <2>1. g[{}] = h[{}]
    BY <1>3 DEF Folded
  <2>2. ASSUME NEW T \in SUBSET D, T # {}, g[T \ {c[T]}] = h[T \ {c[T]}] PROVE g[T] = h[T]
    <3>1. fs[c[T]] = es[c[T]]
      BY <1>1, <1>4, <2>2
    <3>2. g[T] = Add(g[T \ {c[T]}], fs[c[T]])
      BY <1>3, <1>4, <2>2, Zenon DEF Folded
    <3>3. h[T] = Add(h[T \ {c[T]}], es[c[T]])
      BY <1>3, <1>4, <2>2, Zenon DEF Folded
    <3> QED
      BY <2>2, <3>1, <3>2, <3>3
  <2>3. Picks(c, D) /\ Agree(g, h, D, c)
    BY <1>4, <2>1, <2>2 DEF Picks, Agree
  <2> QED
    BY <1>1, <2>3, RecursionUnique
<1>6. Max(D \cup {n}) = n
  <2>1. IsFiniteSet(D \cup {n})
    BY <1>1, FS_AddElement
  <2>2. D \cup {n} \in SUBSET Nat /\ D \cup {n} # {}
    BY <1>1
  <2>3. Max(D \cup {n}) \in D \cup {n} /\ n <= Max(D \cup {n})
    BY <2>1, <2>2, MaxIsIn
  <2> QED
    BY <1>1, <2>3
<1>7. g[D \cup {n}] = Folded(fs, g, D \cup {n})
  BY <1>1, <1>2 DEF Folding
<1>8. (D \cup {n}) \ {n} = D
  BY <1>1
<1>9. g[D \cup {n}] = Add(g[D], e)
  BY <1>1, <1>6, <1>7, <1>8 DEF Folded
<1> QED
  BY <1>1, <1>5, <1>9 DEF ByModel, fs, g, h

-----------------------------------------------------------------------------
(* b holds, for every model, what es spent on it, and all of the total.    *)
Attributes(b, es) ==
  /\ b \in Amounts
  /\ \A m \in Models :
        IF m \in DOMAIN b THEN b[m] = SpentIn(es, m) ELSE SpentIn(es, m) = 0
  /\ SumFunction(b) = Total(es)

LEMMA SpentAppended ==
  ASSUME NEW es \in Seq(Recorded), NEW e \in Recorded, NEW m
  PROVE  /\ SpentIn(es, m) \in Nat
         /\ SpentIn(Append(es, e), m)
              = SpentIn(es, m) + (IF m = e.model THEN e.cost ELSE 0)
<1> DEFINE D == DOMAIN es
           n == Len(es) + 1
           f == Costs(es)
           fs == Append(es, e)
           g == Costs(fs)
           S == {i \in D : es[i].model = m}
<1>1. /\ IsFiniteSet(D) /\ n \notin D /\ DOMAIN fs = D \cup {n}
      /\ (\A i \in D : f[i] \in Nat /\ g[i] = f[i] /\ fs[i] = es[i])
      /\ fs[n] = e /\ g[n] = e.cost /\ e.cost \in Nat
  BY CostsAppended
<1>2. S \subseteq D /\ {i \in DOMAIN fs : fs[i].model = m}
                          = IF m = e.model THEN S \cup {n} ELSE S
  <2> DEFINE X == {i \in DOMAIN fs : fs[i].model = m}
  <2>1. \A i \in D : i \in X <=> i \in S
    BY <1>1
  <2>2. n \in X <=> m = e.model
    BY <1>1
  <2>3. X \subseteq D \cup {n} /\ S \subseteq D
    BY <1>1
  <2> HIDE DEF X, S, D, n, fs
  <2>4. CASE m = e.model
    <3>1. X = S \cup {n}
      BY <2>1, <2>2, <2>3, <2>4
    <3> QED
      BY <2>3, <2>4, <3>1 DEF X
  <2>5. CASE m # e.model
    <3>1. X = S
      BY <1>1, <2>1, <2>2, <2>3, <2>5
    <3> QED
      BY <2>3, <2>5, <3>1 DEF X
  <2> QED
    BY <2>4, <2>5
<1>3. SpentIn(es, m) = SumFunctionOnSet(f, S)
  BY DEF SpentIn
<1>4. SpentIn(fs, m) = SumFunctionOnSet(g, IF m = e.model THEN S \cup {n} ELSE S)
  BY <1>2 DEF SpentIn
<1> HIDE DEF D, n, f, fs, g, S
<1>5. IsFiniteSet(S) /\ n \notin S /\ \A i \in S : f[i] \in Nat /\ g[i] = f[i]
  BY <1>1, <1>2, FS_Subset
<1>6. SumFunctionOnSet(g, S) = SumFunctionOnSet(f, S) /\ SumFunctionOnSet(f, S) \in Nat
  BY <1>5, SumSame, SumType
<1>7. SumFunctionOnSet(g, S \cup {n}) = g[n] + SumFunctionOnSet(g, S)
  BY <1>1, <1>5, SumAdd
<1>8. SpentIn(fs, m) = SpentIn(es, m) + (IF m = e.model THEN e.cost ELSE 0)
  BY <1>1, <1>3, <1>4, <1>6, <1>7
<1> QED
  BY <1>3, <1>6, <1>8 DEF fs

LEMMA AttributesNext ==
  ASSUME NEW es \in Seq(Recorded), NEW e \in Recorded, NEW b, Attributes(b, es)
  PROVE  Attributes(Add(b, e), Append(es, e))
<1> DEFINE d == Add(b, e)
           k == e.model
<1>1. PICK M \in SUBSET Models : b \in [M -> Nat]
  BY DEF Attributes, Amounts
<1>2. k \in Models /\ e.cost \in Nat /\ IsFiniteSet(M)
  BY <1>1, LedgerAssumption, FS_Subset DEF Recorded
<1>3. /\ DOMAIN d = M \cup {k}
      /\ \A m \in M \cup {k} :
            d[m] = (IF m \in M THEN b[m] ELSE 0) + (IF m = k THEN e.cost ELSE 0)
  BY <1>1 DEF Add
<1>4. d \in Amounts
  BY AddType DEF Attributes
<1> HIDE DEF d
<1>5. ASSUME NEW m \in Models
      PROVE  IF m \in DOMAIN d THEN d[m] = SpentIn(Append(es, e), m)
                              ELSE SpentIn(Append(es, e), m) = 0
  <2>1. IF m \in M THEN b[m] = SpentIn(es, m) ELSE SpentIn(es, m) = 0
    BY <1>1 DEF Attributes
  <2>2. /\ SpentIn(es, m) \in Nat
        /\ SpentIn(Append(es, e), m) = SpentIn(es, m) + (IF m = k THEN e.cost ELSE 0)
    BY SpentAppended
  <2> QED
    BY <1>2, <1>3, <2>1, <2>2
<1>6. SumFunction(d) = SumFunction(b) + e.cost
  <2> DEFINE R == M \ {k}
  <2>1. IsFiniteSet(R) /\ k \notin R /\ \A m \in R : b[m] \in Nat /\ d[m] = b[m]
    BY <1>1, <1>2, <1>3, FS_Subset
  <2>2. SumFunctionOnSet(d, R) = SumFunctionOnSet(b, R) /\ SumFunctionOnSet(b, R) \in Nat
    <3> HIDE DEF R
    <3> QED
      BY <2>1, SumSame, SumType
  <2>3. d[k] = (IF k \in M THEN b[k] ELSE 0) + e.cost /\ d[k] \in Nat
    BY <1>1, <1>2, <1>3
  <2>4. SumFunctionOnSet(d, R \cup {k}) = d[k] + SumFunctionOnSet(d, R)
    <3> HIDE DEF R
    <3> QED
      BY <2>1, <2>3, SumAdd
  <2>5. SumFunction(d) = SumFunctionOnSet(d, R \cup {k})
    <3>1. R \cup {k} = M \cup {k}
      OBVIOUS
    <3> QED
      BY <1>3, <3>1 DEF SumFunction
  <2>6. SumFunction(b) = SumFunctionOnSet(b, M)
    BY <1>1 DEF SumFunction
  <2>7. CASE k \in M
    <3>1. SumFunctionOnSet(b, M) = b[k] + SumFunctionOnSet(b, R)
      BY <1>1, <1>2, <2>7, SumRemove
    <3>2. b[k] \in Nat
      BY <1>1, <2>7
    <3> HIDE DEF R
    <3> QED
      BY <1>2, <2>2, <2>3, <2>4, <2>5, <2>6, <2>7, <3>1, <3>2
  <2>8. CASE k \notin M
    <3>1. R = M
      BY <2>8
    <3>2. SumFunction(b) = SumFunctionOnSet(b, R)
      BY <2>6, <3>1
    <3>3. d[k] = e.cost
      BY <1>2, <2>3, <2>8
    <3> HIDE DEF R
    <3> QED
      BY <1>2, <2>2, <2>4, <2>5, <3>2, <3>3
  <2> QED
    BY <2>7, <2>8
<1>7. Total(Append(es, e)) = Total(es) + e.cost
  BY TotalAppended
<1> QED
  BY <1>4, <1>5, <1>6, <1>7 DEF Attributes, d

AttributeInv == Attributes(ByModel(entries), entries)

LEMMA InitAttribute == Init => AttributeInv
<1> SUFFICES ASSUME Init PROVE AttributeInv
  OBVIOUS
<1>1. entries = <<>> /\ entries \in Seq(Recorded) /\ DOMAIN entries = {}
  BY DEF Init
<1>2. Folding(entries, Attribution(entries))
  BY <1>1, AttributionExists
<1>3. ByModel(entries) = Nothing
  BY <1>1, <1>2 DEF Folding, Folded, ByModel
<1>4. Nothing \in [{} -> Nat] /\ {} \in SUBSET Models
  BY DEF Nothing
<1>5. Nothing \in Amounts /\ DOMAIN Nothing = {}
  BY <1>4 DEF Amounts
<1>6. SumFunction(Nothing) = 0 /\ Total(entries) = 0
  BY <1>1, <1>5, SumEmpty DEF SumFunction, Total, Costs
<1>7. ASSUME NEW m \in Models PROVE SpentIn(entries, m) = 0
  <2>1. {i \in DOMAIN entries : entries[i].model = m} = {}
    BY <1>1
  <2> QED
    BY <2>1, SumEmpty DEF SpentIn
<1> QED
  BY <1>3, <1>5, <1>6, <1>7 DEF AttributeInv, Attributes

LEMMA NextAttribute == IInv /\ AttributeInv /\ [Next]_vars => AttributeInv'
<1> SUFFICES ASSUME IInv, AttributeInv, [Next]_vars PROVE AttributeInv'
  OBVIOUS
<1>1. CASE entries' = entries
  BY <1>1 DEF AttributeInv
<1>2. CASE entries' # entries
  <2>1. PICK a \in Agents : Charge(a)
    BY <1>2 DEF Next, Call, Idle, vars
  <2>2. PICK e \in Recorded : entries' = Append(entries, e)
    <3> DEFINE m == call[a].model
               u == call[a].usage
    <3>1. RecordError(m, u) = None /\ entries' = Append(entries, Entry(m, u))
      BY <1>2, <2>1 DEF Charge
    <3>2. m \in Models /\ u \in UsageShape
      BY <2>1, LedgerAssumption DEF IInv, Charge
    <3> HIDE DEF m, u
    <3>3. Entry(m, u) \in Recorded
      BY <3>1, <3>2, CostIsNat DEF Entry, Recorded, UsageShape
    <3> QED
      BY <3>1, <3>3
  <2>3. ByModel(entries') = Add(ByModel(entries), e)
    BY <2>2, ByModelAppended DEF IInv
  <2>4. Attributes(Add(ByModel(entries), e), Append(entries, e))
    BY AttributesNext DEF IInv, AttributeInv
  <2> QED
    BY <2>2, <2>3, <2>4 DEF AttributeInv
<1> QED
  BY <1>1, <1>2

LEMMA AttributeImplies == AttributeInv => AttributionComplete
<1> SUFFICES ASSUME AttributeInv PROVE AttributionComplete
  OBVIOUS
<1>1. \A m \in Models : SpentOn(m) = SpentIn(entries, m)
  BY DEF SpentOn, SpentIn
<1>2. total_decimal = Total(entries)
  BY DEF total_decimal
<1> QED
  BY <1>1, <1>2, ByModelIsFold DEF AttributeInv, Attributes, AttributionComplete

(* The breakdown by model is complete and exact, whatever the loops record *)
(* and in whatever order: each model has the sum of its own entries, and   *)
(* the models together the whole total.                                    *)
THEOREM AttributionExact == Spec => []AttributionComplete
  BY AttributeImplies, InitInvariant, NextInvariant, InitAttribute, NextAttribute, PTL DEF Spec
=============================================================================
