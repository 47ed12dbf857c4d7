------------------------------- MODULE Batch -------------------------------
(***************************************************************************)
(* What bounded_map promises its caller (src/llm_client_kit/concurrency.py)*)
(* with the semaphore, the event loop and the clock left out: the items    *)
(* are admitted in input order, at most Limit of them are in flight, every *)
(* admitted item ends once, and the reply lists one result per item in     *)
(* input order beside the number of failures and the number of calls timed *)
(* (n).  A cancelled batch replies with nothing.                           *)
(***************************************************************************)
EXTENDS Integers, FiniteSets

CONSTANTS N,       \* number of items
          Limit,   \* most items in flight at once
          None     \* Python's None

Items == 1 .. N

VARIABLES fate,    \* of each item: queued, inflight, ok, failed or dropped
          status,  \* gathering, cancelling, returned or cancelled
          reply    \* what the caller got, None until then

vars == <<fate, status, reply>>

InFlight == {i \in Items : fate[i] = "inflight"}
Failed   == {i \in Items : fate[i] = "failed"}

Init ==
  /\ fate = [i \in Items |-> "queued"]
  /\ status = "gathering"
  /\ reply = None

Admissible(i) ==
  /\ status = "gathering"
  /\ fate[i] = "queued"
  /\ \A j \in 1 .. (i - 1) : fate[j] # "queued"
  /\ Cardinality(InFlight) < Limit

Admit(i) ==
  /\ Admissible(i)
  /\ fate' = [fate EXCEPT ![i] = "inflight"]
  /\ UNCHANGED <<status, reply>>

Finish(i) ==
  /\ status = "gathering"
  /\ fate[i] = "inflight"
  /\ \E f \in {"ok", "failed"} : fate' = [fate EXCEPT ![i] = f]
  /\ UNCHANGED <<status, reply>>

(* An item whose work never waits is admitted and over in one step.        *)
AtOnce(i) ==
  /\ Admissible(i)
  /\ \E f \in {"ok", "failed"} : fate' = [fate EXCEPT ![i] = f]
  /\ UNCHANGED <<status, reply>>

Return ==
  /\ status = "gathering"
  /\ \A i \in Items : fate[i] \in {"ok", "failed"}
  /\ status' = "returned"
  /\ reply' = [results |-> [i \in Items |-> IF fate[i] = "ok" THEN i ELSE None],
               errors  |-> Cardinality(Failed),
               n       |-> N]
  /\ UNCHANGED fate

Cancel ==
  /\ status = "gathering"
  /\ status' = "cancelling"
  /\ UNCHANGED <<fate, reply>>

Drop(i) ==
  /\ status \in {"cancelling", "cancelled"}
  /\ fate[i] \in {"queued", "inflight"}
  /\ fate' = [fate EXCEPT ![i] = "dropped"]
  /\ UNCHANGED <<status, reply>>

Abort ==
  /\ status = "cancelling"
  /\ \/ \E i \in Items : fate[i] = "dropped"
     \/ \A i \in Items : fate[i] \in {"ok", "failed"}
  /\ status' = "cancelled"
  /\ UNCHANGED <<fate, reply>>

Next ==
  \/ \E i \in Items : Admit(i) \/ Finish(i) \/ AtOnce(i) \/ Drop(i)
  \/ Return
  \/ Cancel
  \/ Abort

Spec == Init /\ [][Next]_vars
=============================================================================
