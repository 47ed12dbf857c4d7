------------------------------- MODULE MCPure -------------------------------
(* Instances of RunStats and Config for TLC: every state is one input.     *)
EXTENDS RunStats, Config

MCDefault == [base_url |-> "openai", model |-> "gpt-4o-mini"]
MCSlashed == [x \in {"local/"} |-> "local"]

(* What the proofs about percentiles take from sorted(), for up to four    *)
(* values.                                                                 *)
ASSUME SortedHere ==
  \A values \in UNION {[1 .. n -> 0 .. 2] : n \in 0 .. 4} : Sorts(Sorted(values), values)

Timings == [queued_s : 0 .. 2, service_s : 0 .. 1]

(* Runs of every length where a rank moves on, and their neighbours: the   *)
(* first k calls, in the order they were submitted, at one timing, the     *)
(* rest at another.                                                        *)
Lengths == {19, 20, 21, 39, 40, 41, 99, 100, 101, 200}
Two == {<<[queued_s |-> 2, service_s |-> 0], [queued_s |-> 0, service_s |-> 1]>>,
        <<[queued_s |-> 0, service_s |-> 1], [queued_s |-> 2, service_s |-> 1]>>}

Samples ==
  UNION {[1 .. n -> Timings] : n \in 0 .. 3}
    \cup {[i \in 1 .. n |-> IF i <= k THEN t[1] ELSE t[2]] :
            n \in Lengths, k \in 0 .. 6, t \in Two}
    \cup {[i \in 1 .. n |-> IF i <= n - k THEN t[1] ELSE t[2]] :
            n \in Lengths, k \in 0 .. 6, t \in Two}

Values == {"", "local/", "local"}
Assignments == [name : {"OPENAI_BASE_URL", "OPENAI_MODEL"}, value : Values]
KeyLine == [name |-> "OPENAI_API_KEY", value |-> "k1"]
Files ==
  {None, <<>>} \cup {<<a>> : a \in Assignments} \cup {<<a, KeyLine>> : a \in Assignments}
    \cup {<<a, b>> : a, b \in {x \in Assignments : x.value # ""}}

Environments ==
  UNION {[X -> {"", "local/"}] : X \in SUBSET {"OPENAI_BASE_URL", "OPENAI_API_KEY"}}

Arguments == [base_url : {None, "", "local/"}, api_key : {None}, model : {None, "m"}]

NoSettings ==
  /\ shared = None /\ secrets = None /\ dotenv = None /\ environ = Empty
  /\ overrides = [s \in Settings |-> None]

Init ==
  \/ timings \in Samples /\ errors \in 0 .. 1 /\ NoSettings
  \/ /\ timings = <<>> /\ errors = 0
     /\ shared \in Files /\ secrets \in {None, "", "dir"} /\ dotenv \in Files
     /\ environ \in Environments /\ overrides \in Arguments

Next == UNCHANGED <<timings, errors, sources>>

Spec == Init /\ [][Next]_<<timings, errors, sources>>
=============================================================================
