------------------------------- MODULE Ledger -------------------------------
(***************************************************************************)
(* CostLedger of src/llm_client_kit/cost.py, shared by loops that call a   *)
(* model, pay, and stop when the ledger raises.  Recording a call and      *)
(* checking the budget is one step, as in LLMClient._finish: nothing is    *)
(* awaited between them.  The call itself takes time, so other loops       *)
(* record theirs between the moment a call is decided and the moment it is *)
(* charged.                                                                *)
(*                                                                         *)
(* Operators defined right before another one with the same parameters and *)
(* used nowhere are mutants of it: BreaksWhenReached, LastEntryOnly,       *)
(* BrokenBefore, Unheard.                                                  *)
(***************************************************************************)
EXTENDS Billing, SequencesExt

CONSTANTS
  Agents,     \* the loops sharing the ledger
  Usages,     \* token counts a response may report
  Budget,     \* CostLedger.budget_usd, or None
  MaxEntries  \* bound: calls recorded before the loops stop calling

ASSUME LedgerAssumption ==
  /\ Budget \in Nat \cup {None}
  /\ Prices \in [Models -> PriceShape \cup {None}]
  /\ Usages \subseteq UsageShape
  /\ Strict \in BOOLEAN
  /\ None \notin {"ValueError", "KeyError", "BudgetExceeded", "declined"}
  /\ MaxEntries \in Nat
  /\ IsFiniteSet(Agents) /\ Agents # {}
  /\ IsFiniteSet(Models) /\ IsFiniteSet(Usages)

VARIABLES
  entries,  \* CostLedger.entries
  call,     \* the call each loop has under way, or None
  raised,   \* what ended each loop, None while it goes on
  asks      \* does the loop ask would_exceed before it calls?

vars == <<entries, call, raised, asks>>

-----------------------------------------------------------------------------
Costs(es) == [i \in DOMAIN es |-> es[i].cost]
Total(es) == SumFunction(Costs(es))

total_decimal == Total(entries)

OverBudget(sum) == Budget # None /\ sum > Budget

BreaksWhenReached(cost) == Budget # None /\ total_decimal + cost >= Budget
would_exceed(cost) == OverBudget(total_decimal + cost)

LastEntryOnly ==
  FoldLeft(LAMBDA out, e :
             [m \in DOMAIN out \cup {e.model} |->
                IF m = e.model THEN e.cost ELSE out[m]],
           [m \in {} |-> 0], entries)

(* out.get(e.model, 0) + e.cost_usd, entry by entry                        *)
by_model ==
  FoldLeft(LAMBDA out, e :
             [m \in DOMAIN out \cup {e.model} |->
                (IF m \in DOMAIN out THEN out[m] ELSE 0)
                  + (IF m = e.model THEN e.cost ELSE 0)],
           [m \in {} |-> 0], entries)

-----------------------------------------------------------------------------
Init ==
  /\ entries = <<>>
  /\ call = [a \in Agents |-> None]
  /\ raised = [a \in Agents |-> None]
  /\ asks \in [Agents -> BOOLEAN]

(* A loop sends its next call, or lets would_exceed keep it from paying.   *)
(* A loop that asks knows what the call will cost: the best estimate there *)
(* can be, which would_exceed leaves to its caller.                        *)
Call(a, model, u) ==
  /\ call[a] = None
  /\ raised[a] = None
  /\ Len(entries) < MaxEntries
  /\ \/ /\ asks[a]
        /\ would_exceed(Cost(model, u))
        /\ raised' = [raised EXCEPT ![a] = "declined"]
        /\ UNCHANGED call
     \/ /\ ~(asks[a] /\ would_exceed(Cost(model, u)))
        /\ call' = [call EXCEPT ![a] = [model |-> model, usage |-> u]]
        /\ UNCHANGED raised
  /\ UNCHANGED <<entries, asks>>

Entry(model, u) ==
  [model |-> model, prompt |-> u.prompt, completion |-> u.completion,
   cached |-> u.cached, cost |-> Cost(model, u)]

Unheard(error) == None
Heard(error) == error

BrokenBefore(before, after) == OverBudget(Total(before))
Broken(before, after) == OverBudget(Total(after))

(* The call came back: record_usage, then check_budget.                    *)
Charge(a) ==
  /\ call[a] # None
  /\ LET error == RecordError(call[a].model, call[a].usage)
     IN \/ /\ error # None
           /\ raised' = [raised EXCEPT ![a] = Heard(error)]
           /\ UNCHANGED entries
        \/ /\ error = None
           /\ entries' = Append(entries, Entry(call[a].model, call[a].usage))
           /\ raised' = [raised EXCEPT ![a] = IF Broken(entries, entries')
                                             THEN "BudgetExceeded" ELSE None]
  /\ call' = [call EXCEPT ![a] = None]
  /\ UNCHANGED asks

(* All loops have ended, or the bound has been reached.                    *)
Idle ==
  /\ \A a \in Agents : call[a] = None
  /\ Len(entries) >= MaxEntries \/ \A a \in Agents : raised[a] # None
  /\ UNCHANGED vars

Next ==
  \/ \E a \in Agents, m \in Models, u \in Usages : Call(a, m, u)
  \/ \E a \in Agents : Charge(a)
  \/ Idle

Spec == Init /\ [][Next]_vars

(* Every loop goes on calling, and every call comes back.                  *)
Fairness ==
  \A a \in Agents :
     /\ WF_vars(\E m \in Models, u \in Usages : Call(a, m, u))
     /\ WF_vars(Charge(a))

FairSpec == Spec /\ Fairness

-----------------------------------------------------------------------------
Errors == {"ValueError", "KeyError", "BudgetExceeded", "declined"}

(* Every variable stays in its range; no entry has a negative cost.        *)
TypeOK ==
  /\ \A e \in Range(entries) :
        /\ e.model \in Models
        /\ e.cost \in Nat
        /\ e.cached <= e.prompt \/ Prices[e.model] = None
  /\ call \in [Agents -> [model : Models, usage : Usages] \cup {None}]
  /\ raised \in [Agents -> Errors \cup {None}]
  /\ asks \in [Agents -> BOOLEAN]

Payable == {p \in Models \X Usages : RecordError(p[1], p[2]) = None}
MaxCost == Max({0} \cup {Cost(p[1], p[2]) : p \in Payable})

AllAsk == \A a \in Agents : asks[a]

(* "turns a runaway into a bounded loss": the calls under way when the     *)
(* budget breaks are charged too, but each loop charges at most one; and   *)
(* if every loop asks would_exceed first, about what the call turns out to *)
(* cost, the loss is one call less, although the answer may be stale when  *)
(* the call is charged.                                                    *)
OverspendBound ==
  Budget # None =>
    total_decimal <=
      Budget + (IF AllAsk THEN Cardinality(Agents) - 1
                         ELSE Cardinality(Agents)) * MaxCost

(* check_budget raises for exactly the calls would_exceed would have been  *)
(* true of just before they were charged.                                  *)
PreflightAgrees ==
  [][\A a \in Agents :
       (call[a] # None /\ call'[a] = None
          /\ RecordError(call[a].model, call[a].usage) = None)
         => (raised'[a] = "BudgetExceeded"
               <=> would_exceed(Cost(call[a].model, call[a].usage)))]_vars

(* by_model attributes every entry to its model, and all of the total.     *)
SpentOn(m) ==
  SumFunctionOnSet(Costs(entries), {i \in DOMAIN entries : entries[i].model = m})

AttributionComplete ==
  /\ \A m \in Models :
        IF m \in DOMAIN by_model THEN by_model[m] = SpentOn(m)
                                 ELSE SpentOn(m) = 0
  /\ SumFunction(by_model) = total_decimal

(* A budget ends every loop while each recorded call costs something.  It  *)
(* is no bound on calls: an answer that reports no usage is recorded as no *)
(* tokens, for nothing, and a loop that gets such answers may go on.       *)
Free == \E i \in DOMAIN entries : entries[i].cost = 0

LoopsEnd == <>((\A a \in Agents : raised[a] # None) \/ Free)
=============================================================================
