-------------------------- MODULE BoundedMapProofs --------------------------
(***************************************************************************)
(* Theorems about BoundedMap for every number of items, every limit and    *)
(* every behaviour of the clock.  The inductive invariant IInv adds to the *)
(* invariants the runs check what they rest on: the tasks' progress never  *)
(* increases with the item number, and a waiter is stranded by no step.    *)
(* On it rest the bound on queue time (InItsWave) and the refinement of    *)
(* Batch (RInv).                                                           *)
(***************************************************************************)
EXTENDS BoundedMap, Counting

(* How far a task has got with the semaphore.                              *)
Stage(s) ==
  IF s = "created" THEN 0
  ELSE IF s = "waiting" THEN 1
  ELSE IF s = "woken" THEN 2 ELSE 3

(* No task is further than an earlier one, a cancelled one excepted.       *)
InputOrder ==
  \A i, j \in Items :
     i < j /\ pc[j] # "cancelled" => Stage(pc[i]) >= Stage(pc[j])

(* While an item waits, no permit lies idle unless a wake-up is under way. *)
NoneStranded ==
  ~Cancelled /\ Waiting # {} => value = 0 \/ At("woken") # {}

(* The clock has passed every time a task has noted.                       *)
PastTimes == \A i \in Items : submitted[i] <= now /\ started[i] <= now

IInv == TypeOK /\ PermitsConserved /\ InputOrder /\ NoneStranded /\ PastTimes

-----------------------------------------------------------------------------
(* A nonempty set of items has a first one.                                *)
LEMMA FirstOfSet ==
  ASSUME NEW S \in SUBSET Items, S # {}
  PROVE  FirstOf(S) \in S /\ \A j \in S : FirstOf(S) <= j
<1>1. S \in SUBSET Nat
  BY BatchAssumption DEF Items
<1>2. \E i \in S : \A j \in S : ~(<<j, i>> \in OpToRel(<, Nat))
  BY <1>1, NatLessThanWellFounded, WFMin
<1>3. \E i \in S : \A j \in S : i <= j
  <2>1. PICK i \in S : \A j \in S : ~(<<j, i>> \in OpToRel(<, Nat))
    BY <1>2
  <2>2. ASSUME NEW j \in S PROVE i <= j
    <3>1. <<j, i>> \in Nat \X Nat
      BY <1>1
    <3>2. ~(j < i)
      BY <2>1, <3>1 DEF OpToRel
    <3> QED
      BY <1>1, <3>2
  <2> QED
    BY <2>2
<1> QED
  BY <1>3 DEF FirstOf

(* Sets of items are finite.                                               *)
LEMMA FiniteItems ==
  ASSUME NEW S \in SUBSET Items
  PROVE  IsFiniteSet(S) /\ Cardinality(S) \in Nat
<1>1. IsFiniteSet(Items)
  BY BatchAssumption, FS_Interval DEF Items
<1> QED
  BY <1>1, FS_Subset, FS_CardinalityType

(* The permit holders after task i alone has moved to state s.             *)
HoldersAfter(i, s) ==
  IF s \in {"woken", "running"} THEN Holders \cup {i} ELSE Holders \ {i}

(* What _wake_up_next does to the tasks: i moves to s, and at most the     *)
(* first waiting task is woken.                                            *)
LEMMA WakesFirst ==
  ASSUME TypeOK,
         NEW v \in Nat, NEW i \in Items, NEW s \in States \ {"waiting"},
         WakeUpNext(v, i, s)
  PROVE  /\ pc' \in [Items -> States]
         /\ pc'[i] = s
         /\ value' \in Nat
         /\ \/ /\ value' = v
               /\ v = 0 \/ Pending \ {i} = {}
               /\ \A j \in Items \ {i} : pc'[j] = pc[j]
            \/ /\ v > 0
               /\ value' = v - 1
               /\ ~Cancelled
               /\ \E k \in Waiting \ {i} :
                     /\ \A j \in Waiting \ {i} : k <= j
                     /\ pc'[k] = "woken"
                     /\ \A j \in Items \ {i, k} : pc'[j] = pc[j]
<1>1. pc \in [Items -> States]
  BY DEF TypeOK
<1>2. CASE v > 0 /\ Pending \ {i} # {}
  <2> DEFINE k == FirstOf(Pending \ {i})
  <2>1. /\ value' = v - 1
        /\ pc' = [pc EXCEPT ![i] = s, ![k] = "woken"]
    BY <1>2 DEF WakeUpNext
  <2>2. ~Cancelled /\ Pending = Waiting
    BY <1>2 DEF Pending
  <2>3. Waiting \ {i} \in SUBSET Items
    BY DEF Waiting, At
  <2>4. k \in Waiting \ {i} /\ \A j \in Waiting \ {i} : k <= j
    BY <1>2, <2>2, <2>3, FirstOfSet
  <2> HIDE DEF k
  <2>5. k \in Items /\ k # i
    BY <2>3, <2>4
  <2>6. pc' \in [Items -> States] /\ pc'[i] = s /\ pc'[k] = "woken"
    BY <1>1, <2>1, <2>5 DEF States
  <2>7. \A j \in Items \ {i, k} : pc'[j] = pc[j]
    BY <1>1, <2>1
  <2> QED
    BY <1>2, <2>1, <2>2, <2>4, <2>6, <2>7
<1>3. CASE ~(v > 0 /\ Pending \ {i} # {})
  <2>1. value' = v /\ pc' = [pc EXCEPT ![i] = s]
    BY <1>3 DEF WakeUpNext
  <2> QED
    BY <1>1, <1>3, <2>1
<1> QED
  BY <1>2, <1>3

(* _wake_up_next turns a permit into a holder and loses none.              *)
LEMMA WakeKeepsPermits ==
  ASSUME TypeOK,
         NEW v \in Nat, NEW i \in Items, NEW s \in States \ {"waiting"},
         WakeUpNext(v, i, s)
  PROVE  value' + Cardinality(Holders') = v + Cardinality(HoldersAfter(i, s))
<1> DEFINE H == HoldersAfter(i, s)
<1>1. H \in SUBSET Items
  BY DEF HoldersAfter, Holders
<1>2. CASE value' = v /\ \A j \in Items \ {i} : pc'[j] = pc[j]
  <2>1. Holders' = H
    BY <1>2, WakesFirst DEF HoldersAfter, Holders
  <2> QED
    BY <1>2, <2>1
<1>3. ASSUME v > 0, value' = v - 1,
             NEW k \in Waiting \ {i}, pc'[k] = "woken",
             \A j \in Items \ {i, k} : pc'[j] = pc[j]
      PROVE  value' + Cardinality(Holders') = v + Cardinality(H)
  <2>1. k \in Items /\ k \notin H
    BY DEF Waiting, At, HoldersAfter, Holders
  <2>2. Holders' = H \cup {k}
    BY <1>3, <2>1, WakesFirst DEF HoldersAfter, Holders
  <2>3. Cardinality(H \cup {k}) = Cardinality(H) + 1
    BY <1>1, <2>1, FiniteItems, FS_AddElement
  <2> QED
    BY <1>1, <1>3, <2>2, <2>3, FiniteItems
<1> QED
  BY <1>2, <1>3, WakesFirst

-----------------------------------------------------------------------------
LEMMA InitInvariant == Init => IInv
<1> SUFFICES ASSUME Init PROVE IInv
  OBVIOUS
<1>1. TypeOK
  BY BatchAssumption DEF Init, TypeOK, States, Statuses
<1>2. PermitsConserved
  <2>1. Holders = {}
    BY DEF Init, Holders
  <2> QED
    BY <2>1, FS_EmptySet, BatchAssumption DEF Init, PermitsConserved
<1>3. InputOrder
  BY DEF Init, InputOrder, Stage
<1>4. NoneStranded
  BY DEF Init, NoneStranded, Waiting, At
<1>5. PastTimes
  BY DEF Init, PastTimes
<1> QED
  BY <1>1, <1>2, <1>3, <1>4, <1>5 DEF IInv

(* The common part of every step that calls _wake_up_next: task i, further *)
(* than waiting, moves to s, and no earlier task is behind it.             *)
LEMMA WakeInvariant ==
  ASSUME TypeOK, InputOrder,
         NEW v \in Nat, NEW i \in Items,
         NEW s \in {"running", "returned", "raised", "cancelled"},
         pc[i] \in {"woken", "running"},
         s # "cancelled" => \A j \in Items : j < i => Stage(pc[j]) = 3,
         WakeUpNext(v, i, s),
         v + Cardinality(HoldersAfter(i, s)) = Limit,
         UNCHANGED status
  PROVE  /\ pc' \in [Items -> States]
         /\ value' \in 0 .. Limit
         /\ PermitsConserved'
         /\ InputOrder'
         /\ NoneStranded'
<1> s \in States \ {"waiting"}
  BY DEF States
<1>1. pc \in [Items -> States] /\ pc' \in [Items -> States] /\ pc'[i] = s
  BY WakesFirst DEF TypeOK
<1>2. value' + Cardinality(Holders') = Limit
  BY WakeKeepsPermits
<1>3. value' \in Nat /\ Cardinality(Holders') \in Nat
  <2>1. Holders' \in SUBSET Items
    BY DEF Holders
  <2> QED
    BY <2>1, WakesFirst, FiniteItems
<1>4. value' \in 0 .. Limit
  BY <1>2, <1>3, BatchAssumption
<1>5. InputOrder'
  <2>1. ASSUME NEW a \in Items, NEW b \in Items, a < b, pc'[b] # "cancelled"
        PROVE  Stage(pc'[a]) >= Stage(pc'[b])
    <3>1. pc[b] # "cancelled" \/ b = i
      BY <1>1, <2>1, WakesFirst DEF Waiting, At
    <3> QED
      BY <1>1, <2>1, <3>1, WakesFirst
         DEF InputOrder, Stage, Waiting, At, States, Items
  <2> QED
    BY <2>1 DEF InputOrder
<1>6. NoneStranded'
  BY <1>1, WakesFirst DEF NoneStranded, Pending, Waiting, At, Cancelled
<1> QED
  BY <1>1, <1>2, <1>4, <1>5, <1>6 DEF PermitsConserved

LEMMA StartInvariant == \A i \in Items : IInv /\ Start(i) => IInv'
<1> SUFFICES ASSUME NEW i \in Items, IInv, Start(i)
             PROVE  IInv'
  OBVIOUS
<1> USE DEF IInv
<1>1. /\ pc \in [Items -> States] /\ pc[i] = "created"
      /\ value \in Nat /\ value <= Limit
      /\ Holders \in SUBSET Items /\ i \notin Holders
  BY BatchAssumption DEF Start, TypeOK, Holders
<1>2. CASE Locked
  <2>1. /\ pc' = [pc EXCEPT ![i] = "waiting"]
        /\ UNCHANGED <<value, results, errors, timings, started, queued, status, now>>
        /\ submitted' = [submitted EXCEPT ![i] = now]
    BY <1>2 DEF Start, tallyVars
  <2>2. TypeOK'
    BY <2>1 DEF TypeOK, States
  <2>3. Holders' = Holders
    BY <1>1, <2>1 DEF Holders
  <2>4. PermitsConserved'
    BY <2>1, <2>3 DEF PermitsConserved
  <2>5. InputOrder'
    BY <1>1, <2>1 DEF Start, InputOrder, Stage, States, Items
  <2>6. NoneStranded'
    <3>1. value = 0 \/ At("woken") # {}
      BY <1>2 DEF Locked, Pending, Start, NoneStranded
    <3>2. At("woken")' = At("woken")
      BY <1>1, <2>1 DEF At
    <3> QED
      BY <2>1, <3>1, <3>2 DEF NoneStranded
  <2>7. PastTimes'
    BY <2>1 DEF PastTimes, TypeOK
  <2> QED
    BY <2>2, <2>4, <2>5, <2>6, <2>7
<1>3. CASE ~Locked
  <2>1. /\ pc' = [pc EXCEPT ![i] = "running"]
        /\ value' = value - 1
        /\ UNCHANGED <<results, errors, timings, status, now>>
        /\ submitted' = [submitted EXCEPT ![i] = now]
        /\ started' = [started EXCEPT ![i] = now]
        /\ queued' = [queued EXCEPT ![i] = 0]
    BY <1>3 DEF Start, tallyVars
  <2>2. value > 0 /\ Waiting = {} /\ At("woken") = {}
    BY <1>1, <1>3 DEF Locked, Pending, Start
  <2>3. TypeOK'
    BY <1>1, <2>1, <2>2, BatchAssumption DEF TypeOK, States
  <2>4. Holders' = Holders \cup {i}
    BY <1>1, <2>1 DEF Holders
  <2>5. Cardinality(Holders') = Cardinality(Holders) + 1
    BY <1>1, <2>4, FiniteItems, FS_AddElement
  <2>6. PermitsConserved'
    BY <1>1, <2>1, <2>5, FiniteItems DEF PermitsConserved
  <2>7. InputOrder'
    <3>1. \A j \in Items : j < i => Stage(pc[j]) = 3
      BY <1>1, <2>2 DEF Start, Waiting, At, Stage, States, Items
    <3> QED
      BY <1>1, <2>1, <3>1 DEF InputOrder, Stage, Items
  <2>8. NoneStranded'
    BY <1>1, <2>1, <2>2 DEF NoneStranded, Waiting, At
  <2>9. PastTimes'
    BY <2>1 DEF PastTimes, TypeOK
  <2> QED
    BY <2>3, <2>6, <2>7, <2>8, <2>9
<1> QED
  BY <1>2, <1>3

LEMMA ResumeInvariant == \A i \in Items : IInv /\ Resume(i) => IInv'
<1> SUFFICES ASSUME NEW i \in Items, IInv, Resume(i)
             PROVE  IInv'
  OBVIOUS
<1> USE DEF IInv
<1>1. /\ pc \in [Items -> States] /\ pc[i] = "woken" /\ value \in Nat
      /\ WakeUpNext(value, i, "running")
      /\ UNCHANGED <<results, errors, timings, submitted, status, now>>
      /\ started' = [started EXCEPT ![i] = now]
      /\ queued' = [queued EXCEPT ![i] = now - submitted[i]]
  BY DEF Resume, PassesOn, ServiceStart, TypeOK, tallyVars
<1>2. \A j \in Items : j < i => Stage(pc[j]) = 3
  BY <1>1 DEF Resume, PassesOn, ServiceStart, InputOrder, Stage, States, Items
<1>3. HoldersAfter(i, "running") = Holders
  BY <1>1 DEF HoldersAfter, Holders
<1>4. /\ pc' \in [Items -> States] /\ value' \in 0 .. Limit
      /\ PermitsConserved' /\ InputOrder' /\ NoneStranded'
  BY <1>1, <1>2, <1>3, WakeInvariant DEF PermitsConserved
<1>5. now - submitted[i] \in Nat
  BY DEF TypeOK, PastTimes
<1>6. TypeOK'
  BY <1>1, <1>4, <1>5 DEF TypeOK
<1>7. PastTimes'
  BY <1>1 DEF PastTimes, TypeOK
<1> QED
  BY <1>4, <1>6, <1>7

LEMMA CompleteInvariant ==
  \A i \in Items : \A outcome \in {"returned", "raised"} :
     IInv /\ Complete(i, outcome) => IInv'
<1> SUFFICES ASSUME NEW i \in Items, NEW outcome \in {"returned", "raised"},
                    IInv, Complete(i, outcome)
             PROVE  IInv'
  OBVIOUS
<1> USE DEF IInv
<1>1. /\ pc \in [Items -> States] /\ pc[i] = "running" /\ value + 1 \in Nat
      /\ WakeUpNext(value + 1, i, outcome)
      /\ timings' = [timings EXCEPT ![i] = Timing(i, outcome)]
      /\ UNCHANGED <<submitted, started, queued, status, now>>
  BY DEF Complete, TypeOK, clockVars
<1>2. results' \in [Items -> Items \cup {None}] /\ errors' \in Nat
  BY DEF Complete, TypeOK
<1>3. \A j \in Items : j < i => Stage(pc[j]) = 3
  BY <1>1 DEF InputOrder, Stage, States, Items
<1>4. value + 1 + Cardinality(HoldersAfter(i, outcome)) = Limit
  <2>1. /\ HoldersAfter(i, outcome) = Holders \ {i}
        /\ i \in Holders /\ Holders \in SUBSET Items
    BY <1>1 DEF HoldersAfter, Holders
  <2>2. Cardinality(Holders \ {i}) = Cardinality(Holders) - 1
    BY <2>1, FiniteItems, FS_RemoveElement
  <2> QED
    BY <2>1, <2>2, FiniteItems DEF PermitsConserved, TypeOK
<1>5. /\ pc' \in [Items -> States] /\ value' \in 0 .. Limit
      /\ PermitsConserved' /\ InputOrder' /\ NoneStranded'
  BY <1>1, <1>3, <1>4, WakeInvariant
<1>6. Timing(i, outcome) \in Timings
  BY DEF Timing, Timings, TypeOK, PastTimes
<1>7. TypeOK'
  BY <1>1, <1>2, <1>5, <1>6 DEF TypeOK
<1>8. PastTimes'
  BY <1>1 DEF PastTimes
<1> QED
  BY <1>5, <1>7, <1>8

LEMMA UnwindInvariant == \A i \in Items : IInv /\ Unwind(i) => IInv'
<1> SUFFICES ASSUME NEW i \in Items, IInv, Unwind(i)
             PROVE  IInv'
  OBVIOUS
<1> USE DEF IInv
<1>1. /\ pc \in [Items -> States] /\ pc[i] \notin Ended /\ value \in Nat /\ Cancelled
      /\ UNCHANGED <<results, errors, timings, submitted, started, queued, status, now>>
  BY DEF Unwind, GivesBack, TypeOK, tallyVars, clockVars
<1>2. CASE i \in Holders
  <2>1. WakeUpNext(value + 1, i, "cancelled") /\ pc[i] \in {"woken", "running"}
    BY <1>2 DEF Unwind, GivesBack, Holders
  <2>2. /\ HoldersAfter(i, "cancelled") = Holders \ {i}
        /\ Holders \in SUBSET Items
    BY DEF HoldersAfter, Holders
  <2>3. Cardinality(Holders \ {i}) = Cardinality(Holders) - 1
    BY <1>2, <2>2, FiniteItems, FS_RemoveElement
  <2>4. value + 1 + Cardinality(HoldersAfter(i, "cancelled")) = Limit
    BY <1>1, <1>2, <2>2, <2>3, FiniteItems DEF PermitsConserved
  <2>5. /\ pc' \in [Items -> States] /\ value' \in 0 .. Limit
        /\ PermitsConserved' /\ InputOrder' /\ NoneStranded'
    BY <1>1, <2>1, <2>4, WakeInvariant
  <2> QED
    BY <1>1, <2>5 DEF TypeOK, PastTimes
<1>3. CASE i \notin Holders
  <2>1. pc' = [pc EXCEPT ![i] = "cancelled"] /\ value' = value
    BY <1>3 DEF Unwind, GivesBack
  <2>2. Holders' = Holders
    BY <1>1, <1>3, <2>1 DEF Holders
  <2>3. TypeOK' /\ PermitsConserved' /\ PastTimes'
    BY <1>1, <2>1, <2>2 DEF TypeOK, PermitsConserved, PastTimes, States
  <2>4. InputOrder'
    BY <1>1, <2>1 DEF InputOrder, Stage, States
  <2>5. NoneStranded'
    BY <1>1 DEF NoneStranded, Cancelled
  <2> QED
    BY <2>3, <2>4, <2>5
<1> QED
  BY <1>2, <1>3

LEMMA NextInvariant == IInv /\ [Next]_vars => IInv'
<1> SUFFICES ASSUME IInv, [Next]_vars PROVE IInv'
  OBVIOUS
<1>1. ASSUME NEW i \in Items, Step(i) PROVE IInv'
  BY <1>1, StartInvariant, ResumeInvariant, CompleteInvariant, UnwindInvariant
     DEF Step
<1>2. ASSUME UNCHANGED <<pc, value, tallyVars, clockVars>>,
             status' \in Statuses,
             Cancelled => Cancelled',
             now' \in Nat, now <= now'
      PROVE  IInv'
  <2>1. TypeOK' /\ PermitsConserved' /\ InputOrder' /\ NoneStranded'
    BY <1>2 DEF IInv, TypeOK, PermitsConserved, Holders, InputOrder,
                NoneStranded, Waiting, At, tallyVars, clockVars
  <2>2. PastTimes'
    BY <1>2 DEF IInv, TypeOK, PastTimes, clockVars
  <2> QED
    BY <2>1, <2>2 DEF IInv
<1>3. CASE Cancel \/ Return \/ Abort
  BY <1>2, <1>3 DEF IInv, TypeOK, Cancel, Return, Abort, semVars, Cancelled, Statuses
<1>4. CASE Tick
  BY <1>2, <1>4 DEF IInv, TypeOK, Tick, semVars, Cancelled
<1>5. CASE Terminated \/ UNCHANGED vars
  BY <1>2, <1>5 DEF IInv, TypeOK, Terminated, vars, semVars, Cancelled
<1> QED
  BY <1>1, <1>3, <1>4, <1>5 DEF Next

(* The inductive invariant holds in every reachable state.                 *)
THEOREM Invariance == Spec => []IInv
  BY InitInvariant, NextInvariant, PTL DEF Spec

(* For every number of items and every limit, each variable stays in its   *)
(* range; the semaphore's value never leaves 0 .. Limit.                   *)
THEOREM TypeCorrect == Spec => []TypeOK
  BY Invariance, PTL DEF IInv

(* No path through one() -- failure, cancellation before or after the      *)
(* wake-up, hand-over of the permit -- loses a permit or makes one up.     *)
THEOREM PermitConservation == Spec => []PermitsConserved
  BY Invariance, PTL DEF IInv

(* "at most `limit` in flight", for every number of items and every limit. *)
THEOREM AdmissionBound == Spec => []AdmissionLimit
<1>1. IInv => AdmissionLimit
  <2> SUFFICES ASSUME IInv PROVE AdmissionLimit
    OBVIOUS
  <2>1. Running \in SUBSET Holders /\ Holders \in SUBSET Items
    BY DEF Running, At, Holders
  <2>2. Cardinality(Running) <= Cardinality(Holders)
    BY <2>1, FiniteItems, FS_Subset
  <2>3. Cardinality(Holders) <= Limit
    BY <2>1, FiniteItems, BatchAssumption
       DEF IInv, TypeOK, PermitsConserved
  <2> QED
    BY <2>1, <2>2, <2>3, FiniteItems, BatchAssumption DEF AdmissionLimit
<1> QED
  BY <1>1, Invariance, PTL

(* The tasks are admitted in input order: nobody overtakes a task that is  *)
(* waiting, or that has been handed a permit and has not run yet.          *)
THEOREM OrderedAdmission == Spec => []AdmittedInOrder
<1>1. IInv => AdmittedInOrder
  BY DEF IInv, TypeOK, InputOrder, AdmittedInOrder, Stage
<1> QED
  BY <1>1, Invariance, PTL

(* An item waits only while the limit is exhausted, or while the wake-up   *)
(* that will admit somebody is on its way: no lost wake-up.                *)
THEOREM NoLostWakeUp == Spec => []WorkConserving
<1>1. IInv => WorkConserving
  <2> SUFFICES ASSUME IInv, Waiting # {}, At("woken") = {}, ~Cancelled
               PROVE  Cardinality(Running) = Limit
    BY DEF WorkConserving
  <2>1. value = 0
    BY DEF IInv, NoneStranded
  <2>2. Holders = Running /\ Running \in SUBSET Items
    BY DEF Holders, Running, At
  <2> QED
    BY <2>1, <2>2, FiniteItems, BatchAssumption DEF IInv, PermitsConserved
<1> QED
  BY <1>1, Invariance, PTL

-----------------------------------------------------------------------------
(* On a loop that is never late the items that hold all permits while an   *)
(* item waits started their service, at the latest, one wave before it.    *)
Bound(i) == Waves(i) * MaxService

InItsWave ==
  \A i \in Items :
     /\ submitted[i] = 0
     /\ started[i] = queued[i]
     /\ queued[i] <= Bound(i)
     /\ pc[i] = "created" => now = 0
     /\ pc[i] \in {"waiting", "woken"} => now <= Bound(i)
     /\ pc[i] = "running" => now <= queued[i] + MaxService
     /\ timings[i] # None => timings[i].service_s <= MaxService

LEMMA BoundType ==
  ASSUME Limit > 0, NEW i \in Items
  PROVE  Waves(i) \in Nat /\ Bound(i) \in Nat
<1>1. i - 1 \in Nat /\ Limit \in Nat \ {0} /\ MaxService \in Nat
  BY BatchAssumption, ClockAssumption DEF Items
<1>2. Waves(i) \in Nat
  BY <1>1, Division DEF Waves
<1> QED
  BY <1>1, <1>2, Products DEF Bound

(* Of the items that hold all permits while i waits, one was admitted a    *)
(* wave earlier.                                                           *)
LEMMA WaveBefore ==
  ASSUME IInv, Limit > 0, ~Cancelled, At("woken") = {},
         NEW i \in Items, pc[i] = "waiting"
  PROVE  \E j \in Running : Bound(j) + MaxService <= Bound(i)
<1>1. i \in Nat /\ i >= 1 /\ Limit \in Nat \ {0} /\ MaxService \in Nat
  BY BatchAssumption, ClockAssumption DEF Items
<1>2. Running \in SUBSET Items /\ Holders = Running
  BY DEF Running, Holders, At
<1>3. Cardinality(Running) = Limit
  <2>1. i \in Waiting
    BY DEF Waiting, At
  <2>2. value = 0
    BY <2>1 DEF IInv, NoneStranded
  <2> QED
    BY <1>2, <2>2, FiniteItems, BatchAssumption DEF IInv, PermitsConserved
<1>4. ASSUME NEW j \in Running PROVE j \in 1 .. (i - 1)
  <2>1. j \in Items /\ pc[j] = "running"
    BY DEF Running, At
  <2>2. ~(i < j)
    BY <2>1 DEF IInv, InputOrder, Stage
  <2> QED
    BY <1>1, <2>1, <2>2 DEF Items
<1>5. PICK j \in Running : j + Limit <= (i - 1) + 1
  <2>1. i - 1 \in Nat /\ Running \subseteq 1 .. (i - 1) /\ Cardinality(Running) >= Limit
    BY <1>1, <1>3, <1>4
  <2> HIDE DEF Running
  <2> QED
    BY <1>1, <2>1, Pigeonhole
<1>6. Waves(j) + 1 <= Waves(i)
  <2>1. j - 1 \in Nat /\ i - 1 \in Nat /\ (j - 1) + Limit <= i - 1
    BY <1>1, <1>4, <1>5
  <2> QED
    BY <1>1, <2>1, NextWave DEF Waves
<1>7. j \in Items /\ Waves(j) \in Nat /\ Waves(i) \in Nat
  BY <1>2, BoundType
<1>8. (Waves(j) + 1) * MaxService = Bound(j) + MaxService
  BY <1>1, <1>7, Products DEF Bound
<1>9. (Waves(j) + 1) * MaxService <= Bound(i)
  <2>1. Waves(j) + 1 \in Nat
    BY <1>7
  <2> QED
    BY <1>1, <1>6, <1>7, <2>1, Products DEF Bound
<1> QED
  BY <1>8, <1>9

LEMMA InitWave == Limit > 0 /\ Init => InItsWave
<1> SUFFICES ASSUME Limit > 0, Init, NEW i \in Items
             PROVE  /\ submitted[i] = 0 /\ started[i] = queued[i] /\ queued[i] <= Bound(i)
                    /\ pc[i] = "created" => now = 0
                    /\ pc[i] \in {"waiting", "woken"} => now <= Bound(i)
                    /\ pc[i] = "running" => now <= queued[i] + MaxService
                    /\ timings[i] # None => timings[i].service_s <= MaxService
  BY DEF InItsWave
<1> QED
  BY BoundType DEF Init

(* A step of task i and the wake-up it may give: the other items stay in   *)
(* their wave, because being woken takes no time.                          *)
LEMMA OthersInWave ==
  ASSUME InItsWave, NEW i \in Items, now' = now, submitted'[i] = 0,
         started'[i] = queued'[i], queued'[i] <= Bound(i),
         pc'[i] \notin {"created", "waiting", "woken"},
         pc'[i] = "running" => now <= queued'[i] + MaxService,
         timings'[i] # None => timings'[i].service_s <= MaxService,
         \A j \in Items \ {i} :
            /\ pc'[j] = pc[j] \/ (pc[j] = "waiting" /\ pc'[j] = "woken")
            /\ submitted'[j] = submitted[j] /\ started'[j] = started[j]
            /\ queued'[j] = queued[j] /\ timings'[j] = timings[j]
  PROVE  InItsWave'
<1> SUFFICES ASSUME NEW j \in Items
             PROVE  /\ submitted'[j] = 0 /\ started'[j] = queued'[j] /\ queued'[j] <= Bound(j)
                    /\ pc'[j] = "created" => now = 0
                    /\ pc'[j] \in {"waiting", "woken"} => now <= Bound(j)
                    /\ pc'[j] = "running" => now <= queued'[j] + MaxService
                    /\ timings'[j] # None => timings'[j].service_s <= MaxService
  BY DEF InItsWave, Bound, Waves
<1>1. CASE j = i
  BY <1>1
<1>2. CASE j # i
  BY <1>2 DEF InItsWave
<1> QED
  BY <1>1, <1>2

LEMMA WakesOthers ==
  ASSUME TypeOK, NEW v \in Nat, NEW i \in Items,
         NEW s \in {"running", "returned", "raised", "cancelled"}, WakeUpNext(v, i, s)
  PROVE  /\ pc'[i] = s
         /\ \A j \in Items \ {i} : pc'[j] = pc[j] \/ (pc[j] = "waiting" /\ pc'[j] = "woken")
<1>1. s \in States \ {"waiting"}
  BY DEF States
<1>2. \A j \in Waiting : pc[j] = "waiting"
  BY DEF Waiting, At
<1>3. /\ pc'[i] = s
      /\ \/ \A j \in Items \ {i} : pc'[j] = pc[j]
         \/ \E k \in Waiting \ {i} :
               pc'[k] = "woken" /\ \A j \in Items \ {i, k} : pc'[j] = pc[j]
  BY <1>1, WakesFirst
<1> HIDE DEF Waiting
<1>4. ASSUME NEW k \in Waiting \ {i}, pc'[k] = "woken", NEW j \in Items \ {i},
             \A l \in Items \ {i, k} : pc'[l] = pc[l]
      PROVE  pc'[j] = pc[j] \/ (pc[j] = "waiting" /\ pc'[j] = "woken")
  <2>1. CASE j = k
    BY <1>2, <1>4, <2>1
  <2>2. CASE j # k
    BY <1>4, <2>2
  <2> QED
    BY <2>1, <2>2
<1> QED
  BY <1>3, <1>4

LEMMA StepWave ==
  ASSUME IInv, InItsWave, Limit > 0, NEW i \in Items, Step(i)
  PROVE  InItsWave'
<1>1. /\ pc \in [Items -> States] /\ submitted \in [Items -> Nat] /\ started \in [Items -> Nat]
      /\ queued \in [Items -> Nat] /\ timings \in [Items -> Timings \cup {None}]
      /\ now \in Nat /\ value \in Nat /\ MaxService \in Nat
  BY ClockAssumption, BatchAssumption DEF IInv, TypeOK
<1>2. CASE Start(i)
  <2>1. now = 0 /\ 0 <= Bound(i) /\ pc[i] = "created"
    BY <1>2, BoundType DEF Start, InItsWave
  <2>2. CASE Locked
    <3>1. /\ pc' = [pc EXCEPT ![i] = "waiting"] /\ submitted' = [submitted EXCEPT ![i] = now]
          /\ UNCHANGED <<started, queued, timings, now>>
      BY <1>2, <2>2 DEF Start, tallyVars
    <3>2. ASSUME NEW j \in Items
          PROVE  /\ submitted'[j] = 0 /\ started'[j] = queued'[j] /\ queued'[j] <= Bound(j)
                 /\ pc'[j] = "created" => now = 0
                 /\ pc'[j] \in {"waiting", "woken"} => now <= Bound(j)
                 /\ pc'[j] = "running" => now <= queued'[j] + MaxService
                 /\ timings'[j] # None => timings'[j].service_s <= MaxService
      <4>1. CASE j = i
        BY <1>1, <2>1, <3>1, <4>1 DEF InItsWave
      <4>2. CASE j # i
        BY <1>1, <3>1, <4>2 DEF InItsWave
      <4> QED
        BY <4>1, <4>2
    <3> QED
      BY <3>1, <3>2 DEF InItsWave, Bound, Waves
  <2>3. CASE ~Locked
    <3>1. /\ pc' = [pc EXCEPT ![i] = "running"] /\ submitted' = [submitted EXCEPT ![i] = now]
          /\ started' = [started EXCEPT ![i] = now] /\ queued' = [queued EXCEPT ![i] = 0]
          /\ UNCHANGED <<timings, now>>
      BY <1>2, <2>3 DEF Start, tallyVars
    <3> QED
      BY <1>1, <2>1, <3>1, OthersInWave DEF InItsWave
  <2> QED
    BY <2>2, <2>3
<1>3. CASE Resume(i)
  <2>1. /\ pc[i] = "woken" /\ WakeUpNext(value, i, "running")
        /\ started' = [started EXCEPT ![i] = now]
        /\ queued' = [queued EXCEPT ![i] = now - submitted[i]]
        /\ UNCHANGED <<submitted, timings, now>>
    BY <1>3 DEF Resume, PassesOn, ServiceStart, tallyVars
  <2>2. now <= Bound(i) /\ submitted[i] = 0 /\ now - submitted[i] = now
    BY <1>1, <2>1 DEF InItsWave
  <2>3. /\ pc'[i] = "running"
        /\ \A j \in Items \ {i} : pc'[j] = pc[j] \/ (pc[j] = "waiting" /\ pc'[j] = "woken")
    BY <1>1, <2>1, WakesOthers DEF IInv
  <2>4. /\ submitted'[i] = 0 /\ started'[i] = now /\ queued'[i] = now
        /\ timings'[i] # None => timings'[i].service_s <= MaxService
        /\ now <= now + MaxService
    BY <1>1, <2>1, <2>2 DEF InItsWave
  <2>5. \A j \in Items \ {i} :
           /\ submitted'[j] = submitted[j] /\ started'[j] = started[j]
           /\ queued'[j] = queued[j] /\ timings'[j] = timings[j]
    BY <1>1, <2>1
  <2> QED
    BY <2>1, <2>2, <2>3, <2>4, <2>5, OthersInWave
<1>4. ASSUME NEW outcome \in {"returned", "raised"}, Complete(i, outcome) PROVE InItsWave'
  <2>1. /\ pc[i] = "running" /\ WakeUpNext(value + 1, i, outcome)
        /\ timings' = [timings EXCEPT ![i] = Timing(i, outcome)]
        /\ UNCHANGED <<submitted, started, queued, now>>
    BY <1>4 DEF Complete, clockVars
  <2>2. Timing(i, outcome).service_s <= MaxService
    BY <1>1, <2>1 DEF InItsWave, Timing
  <2>3. /\ pc'[i] = outcome
        /\ \A j \in Items \ {i} : pc'[j] = pc[j] \/ (pc[j] = "waiting" /\ pc'[j] = "woken")
    BY <1>1, <2>1, WakesOthers DEF IInv
  <2> QED
    BY <1>1, <2>1, <2>2, <2>3, OthersInWave DEF InItsWave
<1>5. CASE Unwind(i)
  <2>1. UNCHANGED <<timings, submitted, started, queued, now>>
    BY <1>5 DEF Unwind, tallyVars, clockVars
  <2>2. /\ pc'[i] = "cancelled"
        /\ \A j \in Items \ {i} : pc'[j] = pc[j] \/ (pc[j] = "waiting" /\ pc'[j] = "woken")
    <3>1. CASE i \in Holders
      <4>1. WakeUpNext(value + 1, i, "cancelled") /\ value + 1 \in Nat
        BY <1>1, <1>5, <3>1 DEF Unwind, GivesBack
      <4> QED
        BY <1>1, <4>1, WakesOthers DEF IInv
    <3>2. CASE i \notin Holders
      <4>1. pc' = [pc EXCEPT ![i] = "cancelled"]
        BY <1>5, <3>2 DEF Unwind, GivesBack
      <4> QED
        BY <1>1, <4>1
    <3> QED
      BY <3>1, <3>2
  <2> QED
    BY <1>1, <2>1, <2>2, OthersInWave DEF InItsWave
<1> QED
  BY <1>2, <1>3, <1>4, <1>5 DEF Step

(* The clock moves only while nobody is ready and every service still has  *)
(* time left, so it passes nobody's wave.                                  *)
LEMMA TickWave ==
  ASSUME IInv, InItsWave, Limit > 0, ~LoopLag, Tick
  PROVE  InItsWave'
<1>1. /\ ~Ready /\ \A j \in Running : Elapsed(j) < MaxService
      /\ now' = now + 1
      /\ UNCHANGED <<pc, submitted, started, queued, timings>>
  BY DEF Tick, semVars, tallyVars, clockVars
<1>2. now \in Nat /\ MaxService \in Nat /\ queued \in [Items -> Nat]
  BY ClockAssumption DEF IInv, TypeOK
<1>3. At("created") = {} /\ At("woken") = {}
  BY <1>1 DEF Ready
<1>4. ASSUME NEW j \in Items, pc[j] = "running" PROVE now + 1 <= queued[j] + MaxService
  <2>1. Elapsed(j) < MaxService /\ submitted[j] = 0 /\ queued[j] \in Nat
    BY <1>1, <1>2, <1>4 DEF InItsWave, Running, At
  <2> QED
    BY <1>2, <2>1 DEF Elapsed
<1>5. ASSUME NEW i \in Items, pc[i] = "waiting" PROVE now + 1 <= Bound(i)
  <2>1. ~Cancelled
    BY <1>1, <1>5 DEF Ready, AllEnded, Ended
  <2>2. PICK j \in Running : Bound(j) + MaxService <= Bound(i)
    BY <1>3, <1>5, <2>1, WaveBefore
  <2>3. j \in Items /\ pc[j] = "running" /\ queued[j] <= Bound(j) /\ queued[j] \in Nat
    BY <1>2 DEF Running, At, InItsWave
  <2>4. Bound(i) \in Nat /\ Bound(j) \in Nat /\ now + 1 <= queued[j] + MaxService
    BY <1>4, <2>3, BoundType
  <2> QED
    BY <1>2, <2>2, <2>3, <2>4
<1>6. ASSUME NEW i \in Items
      PROVE  /\ submitted[i] = 0 /\ started[i] = queued[i] /\ queued[i] <= Bound(i)
             /\ pc[i] = "created" => now + 1 = 0
             /\ pc[i] \in {"waiting", "woken"} => now + 1 <= Bound(i)
             /\ pc[i] = "running" => now + 1 <= queued[i] + MaxService
             /\ timings[i] # None => timings[i].service_s <= MaxService
  <2>1. pc[i] # "created" /\ pc[i] # "woken"
    BY <1>3 DEF At
  <2> QED
    BY <1>4, <1>5, <2>1 DEF InItsWave
<1> QED
  BY <1>1, <1>6 DEF InItsWave, Bound, Waves

LEMMA NextWaves ==
  Limit > 0 /\ ~LoopLag /\ IInv /\ InItsWave /\ [Next]_vars => InItsWave'
<1> SUFFICES ASSUME Limit > 0, ~LoopLag, IInv, InItsWave, [Next]_vars PROVE InItsWave'
  OBVIOUS
<1>1. CASE Cancel \/ Return \/ Abort \/ Terminated \/ UNCHANGED vars
  <2>1. UNCHANGED <<pc, submitted, started, queued, timings, now>>
    BY <1>1 DEF Cancel, Return, Abort, Terminated, vars, semVars, tallyVars, clockVars
  <2> QED
    BY <2>1 DEF InItsWave, Bound, Waves
<1> QED
  BY <1>1, StepWave, TickWave DEF Next

(* Queue time is what the limit imposes: on a loop that is never late item *)
(* i is admitted after at most (i - 1) \div Limit services, for every      *)
(* number of items and every limit, whatever fails and whatever is         *)
(* cancelled; and the service time reported is the work's own.             *)
THEOREM QueueTimeBounded == Spec => []WaveModel
<1>1. (Limit > 0 /\ ~LoopLag => InItsWave) => WaveModel
  BY DEF InItsWave, WaveModel, Bound
<1>2. Init => (Limit > 0 /\ ~LoopLag => InItsWave)
  BY InitWave
<1>3. IInv /\ (Limit > 0 /\ ~LoopLag => InItsWave) /\ [Next]_vars
        => (Limit > 0 /\ ~LoopLag => InItsWave)'
  BY NextWaves
<1> DEFINE J == Limit > 0 /\ ~LoopLag => InItsWave
<1>4. J => WaveModel
  BY <1>1
<1>5. Init => J
  BY <1>2
<1>6. IInv /\ J /\ [Next]_vars => J'
  BY <1>3
<1> HIDE DEF J
<1> QED
  BY <1>4, <1>5, <1>6, Invariance, PTL DEF Spec

-----------------------------------------------------------------------------
(***************************************************************************)
(* BoundedMap implements Batch.  Beside IInv the step simulation needs     *)
(* what the batch has noted down so far (Reported) and how the coroutine's *)
(* status and its tasks are related (Finality).                            *)
(***************************************************************************)

(* results, errors and timings say how each ended task ended.              *)
Reported ==
  /\ \A i \in Items : results[i] = IF pc[i] = "returned" THEN i ELSE None
  /\ \A i \in Items : timings[i] # None <=> pc[i] \in {"returned", "raised"}
  /\ errors = Cardinality(At("raised"))

(* Tasks are cancelled only by a cancellation, and none outlives a return. *)
Finality ==
  /\ ~Cancelled => At("cancelled") = {}
  /\ status = "returned" => AllEnded

RInv == IInv /\ Reported /\ Finality

-----------------------------------------------------------------------------
LEMMA InitReported == Init => Reported /\ Finality
<1> SUFFICES ASSUME Init PROVE Reported /\ Finality
  OBVIOUS
<1>1. At("raised") = {} /\ At("cancelled") = {}
  BY DEF Init, At
<1>2. errors = Cardinality(At("raised"))
  BY <1>1, FS_EmptySet DEF Init
<1> QED
  BY <1>1, <1>2 DEF Init, Reported, Finality

(* A step in which no task ends but by a cancellation reports nothing new. *)
LEMMA QuietStep ==
  ASSUME RInv, UNCHANGED tallyVars,
         \A i \in Items : pc'[i] = pc[i]
            \/ {pc[i], pc'[i]} \cap {"returned", "raised"} = {}
  PROVE  Reported'
<1>1. At("raised")' = At("raised")
  BY DEF At
<1> QED
  BY <1>1 DEF RInv, Reported, tallyVars

LEMMA StartReported ==
  \A i \in Items : RInv /\ (Start(i) \/ Resume(i)) => Reported' /\ Finality'
<1> SUFFICES ASSUME NEW i \in Items, RInv, Start(i) \/ Resume(i)
             PROVE  Reported' /\ Finality'
  OBVIOUS
<1> USE DEF RInv, IInv
<1>1. /\ ~Cancelled /\ UNCHANGED <<tallyVars, status>>
      /\ pc[i] \in {"created", "woken"}
  BY DEF Start, Resume, PassesOn, ServiceStart
<1>2. \A j \in Items : pc'[j] = pc[j]
         \/ {pc[j], pc'[j]} \cap {"returned", "raised", "cancelled"} = {}
  <2>1. CASE Start(i)
    BY <2>1 DEF Start, TypeOK
  <2>2. CASE Resume(i)
    BY <2>2, WakesFirst DEF Resume, PassesOn, ServiceStart, TypeOK, States, Waiting, At
  <2> QED
    BY <2>1, <2>2
<1>3. status # "returned"
  BY <1>1 DEF Finality, AllEnded, Ended
<1> QED
  BY <1>1, <1>2, <1>3, QuietStep DEF Finality, Cancelled, At

LEMMA CompleteReported ==
  \A i \in Items : \A outcome \in {"returned", "raised"} :
     RInv /\ Complete(i, outcome) => Reported' /\ Finality'
<1> SUFFICES ASSUME NEW i \in Items, NEW outcome \in {"returned", "raised"},
                    RInv, Complete(i, outcome)
             PROVE  Reported' /\ Finality'
  OBVIOUS
<1> USE DEF RInv, IInv
<1>1. /\ pc \in [Items -> States] /\ pc[i] = "running"
      /\ ~Cancelled /\ UNCHANGED status
  BY DEF Complete, TypeOK
<1>2. /\ pc'[i] = outcome
      /\ \A j \in Items \ {i} :
            pc'[j] = pc[j] \/ (pc[j] = "waiting" /\ pc'[j] = "woken")
  BY WakesFirst DEF Complete, TypeOK, States, Waiting, At
<1>3. \A j \in Items : results'[j] = IF pc'[j] = "returned" THEN j ELSE None
  BY <1>1, <1>2 DEF Complete, TypeOK, Reported
<1>4. \A j \in Items : timings'[j] # None <=> pc'[j] \in {"returned", "raised"}
  <2>1. Timing(i, outcome) # None
    BY NoneAssumption DEF Timing, Timings, TypeOK, PastTimes
  <2> QED
    BY <1>1, <1>2, <2>1 DEF Complete, TypeOK, Reported
<1>5. errors' = Cardinality(At("raised"))'
  <2>1. At("raised") \in SUBSET Items /\ i \notin At("raised")
    BY <1>1 DEF At
  <2>2. CASE outcome = "returned"
    <3>1. At("raised")' = At("raised")
      BY <1>1, <1>2, <2>2 DEF At
    <3> QED
      BY <2>2, <3>1 DEF Complete, Reported
  <2>3. CASE outcome = "raised"
    <3>1. At("raised")' = At("raised") \cup {i}
      BY <1>1, <1>2, <2>3 DEF At
    <3>2. Cardinality(At("raised") \cup {i}) = Cardinality(At("raised")) + 1
      BY <2>1, FiniteItems, FS_AddElement
    <3> QED
      BY <2>3, <3>1, <3>2 DEF Complete, Reported
  <2> QED
    BY <2>2, <2>3
<1>6. Finality'
  BY <1>1, <1>2 DEF Finality, Cancelled, At, AllEnded, Ended
<1> QED
  BY <1>3, <1>4, <1>5, <1>6 DEF Reported

LEMMA UnwindReported ==
  \A i \in Items : RInv /\ Unwind(i) => Reported' /\ Finality'
<1> SUFFICES ASSUME NEW i \in Items, RInv, Unwind(i)
             PROVE  Reported' /\ Finality'
  OBVIOUS
<1> USE DEF RInv, IInv
<1>1. /\ pc \in [Items -> States] /\ pc[i] \notin Ended
      /\ Cancelled /\ UNCHANGED <<tallyVars, status>>
  BY DEF Unwind, GivesBack, TypeOK
<1>2. pc'[i] = "cancelled" /\ \A j \in Items \ {i} : pc'[j] = pc[j]
  BY <1>1, WakesFirst DEF Unwind, GivesBack, TypeOK, States
<1> QED
  BY <1>1, <1>2, QuietStep DEF Finality, Cancelled, Ended, AllEnded

LEMMA NextReported == RInv /\ [Next]_vars => RInv'
<1> SUFFICES ASSUME RInv, [Next]_vars PROVE Reported' /\ Finality'
  BY NextInvariant DEF RInv
<1>1. ASSUME NEW i \in Items, Step(i) PROVE Reported' /\ Finality'
  BY <1>1, StartReported, CompleteReported, UnwindReported DEF Step
<1>2. CASE Cancel \/ Return \/ Abort
  BY <1>2, QuietStep DEF Cancel, Return, Abort, semVars, RInv, Finality,
                         Cancelled, AllEnded, At
<1>3. CASE Tick \/ Terminated \/ UNCHANGED vars
  BY <1>3, QuietStep DEF Tick, Terminated, vars, semVars, RInv, Finality,
                         Cancelled, AllEnded, At
<1> QED
  BY <1>1, <1>2, <1>3 DEF Next

-----------------------------------------------------------------------------
(* The states of BoundedMap as Batch sees them.                            *)
LEMMA FateOf ==
  ASSUME TypeOK
  PROVE  /\ B!Items = Items
         /\ \A i \in Items :
               /\ Fate(i) = "queued" <=> pc[i] \in {"created", "waiting", "woken"}
               /\ Fate(i) = "inflight" <=> pc[i] = "running"
               /\ Fate(i) = "ok" <=> pc[i] = "returned"
               /\ Fate(i) = "failed" <=> pc[i] = "raised"
               /\ Fate(i) = "dropped" <=> pc[i] = "cancelled"
  BY DEF TypeOK, States, Fate, B!Items, Items

LEMMA InitSimulates == Init => B!Init
  BY DEF Init, B!Init, B!Items, Items, Fate, Reply

(* Batch counts with the same Cardinality.                                 *)
LEMMA SameCardinality == \A S : B!Cardinality(S) = Cardinality(S)
  BY DEF Cardinality, B!Cardinality

BFate == [i \in Items |-> Fate(i)]

(* No step but Return changes what the caller has been given.              *)
LEMMA ReplyKept ==
  ASSUME UNCHANGED status, status # "returned" \/ UNCHANGED tallyVars
  PROVE  Reply' = Reply
  BY DEF Reply, tallyVars

(* A task's fate changes and nobody else's.                                *)
LEMMA OneFate ==
  ASSUME NEW i \in Items, NEW f, Fate(i)' = f,
         \A j \in Items \ {i} : Fate(j)' = Fate(j)
  PROVE  BFate' = [BFate EXCEPT ![i] = f]
  BY DEF BFate

(* A started task that found a permit, or a woken one, is admitted.        *)
LEMMA AdmitSimulates ==
  ASSUME RInv, NEW i \in Items,
         status = "gathering", UNCHANGED status,
         Fate(i) = "queued", Fate(i)' = "inflight",
         \A j \in Items \ {i} : Fate(j)' = Fate(j),
         \A j \in Items : j < i => Stage(pc[j]) = 3,
         Cardinality(Running) < Limit
  PROVE  B!Admit(i)
<1> USE DEF RInv, IInv
<1>1. \A j \in 1 .. (i - 1) : Fate(j) # "queued"
  BY FateOf, BatchAssumption DEF Stage, Items
<1>2. B!InFlight = Running
  BY FateOf DEF B!InFlight, Running, At
<1>3. BFate' = [BFate EXCEPT ![i] = "inflight"]
  BY OneFate
<1>4. Reply' = Reply
  BY ReplyKept
<1> QED
  BY <1>1, <1>2, <1>3, <1>4, FateOf, SameCardinality, BatchAssumption
     DEF B!Admit, B!Admissible, BFate, Items

LEMMA StartSimulates ==
  \A i \in Items : RInv /\ Start(i) => B!Admit(i) \/ UNCHANGED B!vars
<1> SUFFICES ASSUME NEW i \in Items, RInv, Start(i)
             PROVE  B!Admit(i) \/ UNCHANGED B!vars
  OBVIOUS
<1> USE DEF RInv, IInv
<1>1. /\ pc \in [Items -> States] /\ pc[i] = "created"
      /\ ~Cancelled /\ UNCHANGED <<tallyVars, status>>
  BY DEF Start, TypeOK
<1>2. Reply' = Reply
  BY <1>1, ReplyKept
<1>3. CASE Locked
  <2>1. pc' = [pc EXCEPT ![i] = "waiting"]
    BY <1>3 DEF Start
  <2>2. \A j \in Items : Fate(j)' = Fate(j)
    BY <1>1, <2>1 DEF Fate
  <2>3. BFate' = BFate
    BY <2>2 DEF BFate
  <2> QED
    BY <1>1, <1>2, <2>3 DEF B!vars, BFate
<1>4. CASE ~Locked
  <2>1. pc' = [pc EXCEPT ![i] = "running"]
    BY <1>4 DEF Start
  <2>2. status = "gathering"
    BY <1>1 DEF TypeOK, Statuses, Cancelled, Finality, AllEnded, Ended
  <2>3. value > 0 /\ Waiting = {} /\ At("woken") = {}
    BY <1>1, <1>4, BatchAssumption DEF Locked, Pending, TypeOK
  <2>4. \A j \in Items : j < i => Stage(pc[j]) = 3
    BY <1>1, <2>3 DEF Start, Waiting, At, Stage, States, Items
  <2>5. Cardinality(Running) < Limit
    <3>1. Holders = Running /\ Running \in SUBSET Items
      BY <2>3 DEF Holders, Running, At
    <3> QED
      BY <2>3, <3>1, FiniteItems, BatchAssumption DEF PermitsConserved, TypeOK
  <2>6. Fate(i) = "queued" /\ Fate(i)' = "inflight"
        /\ \A j \in Items \ {i} : Fate(j)' = Fate(j)
    BY <1>1, <2>1 DEF Fate
  <2> QED
    BY <1>1, <2>2, <2>4, <2>5, <2>6, AdmitSimulates
<1> QED
  BY <1>3, <1>4

LEMMA ResumeSimulates == \A i \in Items : RInv /\ Resume(i) => B!Admit(i)
<1> SUFFICES ASSUME NEW i \in Items, RInv, Resume(i)
             PROVE  B!Admit(i)
  OBVIOUS
<1> USE DEF RInv, IInv
<1>1. /\ pc \in [Items -> States] /\ pc[i] = "woken"
      /\ ~Cancelled /\ UNCHANGED <<tallyVars, status>>
  BY DEF Resume, PassesOn, ServiceStart, TypeOK
<1>2. status = "gathering"
  BY <1>1 DEF TypeOK, Statuses, Cancelled, Finality, AllEnded, Ended
<1>3. \A j \in Items : j < i => Stage(pc[j]) = 3
  BY <1>1 DEF Resume, PassesOn, ServiceStart, InputOrder, Stage, States, Items
<1>4. Cardinality(Running) < Limit
  <2>1. /\ Running \cup {i} \in SUBSET Holders /\ Holders \in SUBSET Items
        /\ Running \in SUBSET Items /\ i \notin Running
    BY <1>1 DEF Running, At, Holders
  <2>2. Cardinality(Running \cup {i}) = Cardinality(Running) + 1
    BY <2>1, FiniteItems, FS_AddElement
  <2>3. Cardinality(Running \cup {i}) <= Cardinality(Holders)
    BY <2>1, FiniteItems, FS_Subset
  <2> QED
    BY <2>1, <2>2, <2>3, FiniteItems, BatchAssumption
       DEF PermitsConserved, TypeOK
<1>5. Fate(i) = "queued" /\ Fate(i)' = "inflight"
      /\ \A j \in Items \ {i} : Fate(j)' = Fate(j)
  BY <1>1, WakesFirst DEF Resume, PassesOn, ServiceStart, TypeOK, States, Waiting, At, Fate
<1> QED
  BY <1>1, <1>2, <1>3, <1>4, <1>5, AdmitSimulates

LEMMA CompleteSimulates ==
  \A i \in Items : \A outcome \in {"returned", "raised"} :
     RInv /\ Complete(i, outcome) => B!Finish(i)
<1> SUFFICES ASSUME NEW i \in Items, NEW outcome \in {"returned", "raised"},
                    RInv, Complete(i, outcome)
             PROVE  B!Finish(i)
  OBVIOUS
<1> USE DEF RInv, IInv
<1>1. /\ pc \in [Items -> States] /\ pc[i] = "running"
      /\ ~Cancelled /\ UNCHANGED status
  BY DEF Complete, TypeOK
<1>2. status = "gathering"
  BY <1>1 DEF TypeOK, Statuses, Cancelled, Finality, AllEnded, Ended
<1>3. /\ pc'[i] = outcome
      /\ \A j \in Items \ {i} :
            pc'[j] = pc[j] \/ (pc[j] = "waiting" /\ pc'[j] = "woken")
  BY WakesFirst DEF Complete, TypeOK, States, Waiting, At
<1>4. PICK f \in {"ok", "failed"} : Fate(i)' = f
  BY <1>3 DEF Fate
<1>5. \A j \in Items \ {i} : Fate(j)' = Fate(j)
  BY <1>1, <1>3 DEF Fate
<1>6. BFate' = [BFate EXCEPT ![i] = f]
  BY <1>4, <1>5, OneFate
<1>7. Reply' = Reply
  BY <1>1, <1>2, ReplyKept
<1>8. Fate(i) = "inflight"
  BY <1>1 DEF Fate
<1> QED
  BY <1>1, <1>2, <1>6, <1>7, <1>8 DEF B!Finish, BFate

LEMMA UnwindSimulates == \A i \in Items : RInv /\ Unwind(i) => B!Drop(i)
<1> SUFFICES ASSUME NEW i \in Items, RInv, Unwind(i)
             PROVE  B!Drop(i)
  OBVIOUS
<1> USE DEF RInv, IInv
<1>1. /\ pc \in [Items -> States] /\ pc[i] \notin Ended
      /\ Cancelled /\ UNCHANGED <<tallyVars, status>>
  BY DEF Unwind, GivesBack, TypeOK
<1>2. pc'[i] = "cancelled" /\ \A j \in Items \ {i} : pc'[j] = pc[j]
  BY <1>1, WakesFirst DEF Unwind, GivesBack, TypeOK, States
<1>3. Fate(i) \in {"queued", "inflight"} /\ Fate(i)' = "dropped"
      /\ \A j \in Items \ {i} : Fate(j)' = Fate(j)
  BY <1>1, <1>2 DEF Fate, States, Ended
<1>4. BFate' = [BFate EXCEPT ![i] = "dropped"]
  BY <1>3, OneFate
<1>5. Reply' = Reply
  BY <1>1, ReplyKept
<1> QED
  BY <1>1, <1>3, <1>4, <1>5 DEF B!Drop, BFate, Cancelled

LEMMA ReturnSimulates == RInv /\ Return => B!Return
<1> SUFFICES ASSUME RInv, Return PROVE B!Return
  OBVIOUS
<1> USE DEF RInv, IInv
<1>1. /\ status = "gathering" /\ status' = "returned" /\ AllEnded
      /\ UNCHANGED <<pc, results, errors, timings>>
  BY DEF Return, semVars, tallyVars
<1>2. \A i \in Items : pc[i] \in {"returned", "raised"}
  BY <1>1 DEF AllEnded, Ended, Finality, Cancelled, At
<1>3. {i \in Items : timings[i] # None} = Items
  BY <1>2 DEF Reported
<1>4. Cardinality(Items) = N
  BY BatchAssumption, FS_Interval DEF Items
<1>5. results = [i \in Items |-> IF BFate[i] = "ok" THEN i ELSE None]
  BY FateOf DEF Reported, TypeOK, BFate
<1>6. B!Failed = At("raised")
  BY FateOf DEF B!Failed, At
<1>7. Reply' = [results |-> [i \in Items |-> IF BFate[i] = "ok" THEN i ELSE None],
                errors  |-> Cardinality(B!Failed),
                n       |-> N]
  BY <1>1, <1>3, <1>4, <1>5, <1>6 DEF Reply, Reported
<1>8. \A i \in Items : Fate(i) \in {"ok", "failed"}
  BY <1>2 DEF Fate
<1>9. BFate' = BFate
  BY <1>1 DEF BFate, Fate
<1> QED
  BY <1>1, <1>7, <1>8, <1>9, FateOf, SameCardinality DEF B!Return, BFate

LEMMA CancelSimulates ==
  /\ RInv /\ Cancel => B!Cancel
  /\ RInv /\ Abort => B!Abort
<1> SUFFICES ASSUME RInv, Cancel \/ Abort
             PROVE  (Cancel => B!Cancel) /\ (Abort => B!Abort)
  OBVIOUS
<1> USE DEF RInv, IInv
<1>1. BFate' = BFate /\ Reply' = Reply
  BY DEF Cancel, Abort, semVars, tallyVars, BFate, Fate, Reply
<1>2. ASSUME Abort
      PROVE  \/ \E i \in Items : Fate(i) = "dropped"
             \/ \A i \in Items : Fate(i) \in {"ok", "failed"}
  BY <1>2 DEF Abort, At, AllEnded, Ended, Fate
<1> QED
  BY <1>1, <1>2, FateOf DEF Cancel, Abort, B!Cancel, B!Abort, BFate

LEMMA StepSimulates == RInv /\ [Next]_vars => [B!Next]_(B!vars)
<1> SUFFICES ASSUME RInv, [Next]_vars PROVE [B!Next]_(B!vars)
  OBVIOUS
<1>1. B!Items = Items
  BY FateOf DEF RInv, IInv
<1>2. ASSUME NEW i \in Items, Step(i) PROVE [B!Next]_(B!vars)
  BY <1>1, <1>2, StartSimulates, ResumeSimulates, CompleteSimulates,
     UnwindSimulates DEF Step, B!Next
<1>3. CASE Return \/ Cancel \/ Abort
  BY <1>3, ReturnSimulates, CancelSimulates DEF B!Next
<1>4. CASE Tick \/ Terminated \/ UNCHANGED vars
  BY <1>4 DEF Tick, Terminated, vars, semVars, tallyVars, B!vars, Fate, Reply
<1> QED
  BY <1>2, <1>3, <1>4 DEF Next

(* bounded_map keeps Batch's promise for every number of items, every      *)
(* limit and every schedule: admission in input order under the limit, and *)
(* one result per item, in input order, beside matching counts.            *)
THEOREM Refinement == Spec => ImplementsBatch
<1>1. Init => RInv /\ B!Init
  BY InitInvariant, InitReported, InitSimulates DEF RInv
<1> QED
  BY <1>1, NextReported, StepSimulates, PTL DEF Spec, ImplementsBatch, B!Spec
=============================================================================
