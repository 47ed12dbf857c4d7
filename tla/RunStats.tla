------------------------------ MODULE RunStats ------------------------------
(***************************************************************************)
(* RunStats of src/llm_client_kit/concurrency.py: the statistics of a run, *)
(* computed from the timings bounded_map leaves.  Times are whole units;   *)
(* the rounding to four decimals and mean_queued_s are left out.           *)
(*                                                                         *)
(* The code multiplies p / 100.0 by the number of values in floating point *)
(* and rounds up.  For the percentiles summary asks for, p is 50, 95 or    *)
(* 99, the product is never above a whole number that p * n / 100 is equal *)
(* to (0.95 and 0.99 are stored a little too small), so rounding up the    *)
(* exact quotient gives the same rank.                                     *)
(*                                                                         *)
(* Mutants, each before what it mutates: RankBelow, ServiceOnly.           *)
(***************************************************************************)
EXTENDS Integers, FiniteSets, Sequences, TLC

VARIABLES timings, errors

RankBelow(p, n) == (p * n) \div 100
Rank(p, n) == (p * n + 99) \div 100

Sorted(values) == SortSeq(values, <)

(* What sorted() promises: s lists the values, each as often as they do,   *)
(* in order.                                                               *)
Sorts(s, values) ==
  /\ Len(s) = Len(values)
  /\ \A i, j \in 1 .. Len(values) : i < j => s[i] <= s[j]
  /\ \E q \in [1 .. Len(values) -> 1 .. Len(values)] :
        /\ \A i \in 1 .. Len(values) : \E k \in 1 .. Len(values) : q[k] = i
        /\ \A k \in 1 .. Len(values) : s[k] = values[q[k]]

(* max(0, min(len(s) - 1, rank - 1)), counted from 1                       *)
Slot(rank, n) == IF rank < 1 THEN 1 ELSE IF rank > n THEN n ELSE rank

AtRank(s, p) == s[Slot(Rank(p, Len(s)), Len(s))]

_pct(values, p) == IF values = <<>> THEN 0 ELSE AtRank(Sorted(values), p)

Services == [i \in DOMAIN timings |-> timings[i].service_s]
Queues   == [i \in DOMAIN timings |-> timings[i].queued_s]

ServiceOnly == [i \in DOMAIN timings |-> timings[i].service_s]
Totals == [i \in DOMAIN timings |-> timings[i].queued_s + timings[i].service_s]

summary ==
  [n             |-> Len(timings),
   errors        |-> errors,
   p50_total_s   |-> _pct(Totals, 50),
   p95_total_s   |-> _pct(Totals, 95),
   p99_total_s   |-> _pct(Totals, 99),
   p95_service_s |-> _pct(Services, 95),
   p95_queued_s  |-> _pct(Queues, 95)]

-----------------------------------------------------------------------------
(* "Nearest-rank percentile": v is the smallest of the values that at      *)
(* least p in a hundred of them do not exceed.                             *)
AtMost(values, v) == Cardinality({i \in DOMAIN values : values[i] <= v})
Covers(values, p, v) == 100 * AtMost(values, v) >= p * Len(values)

IsPercentile(values, p, v) ==
  /\ \E i \in DOMAIN values : values[i] = v
  /\ Covers(values, p, v)
  /\ \A i \in DOMAIN values : values[i] < v => ~Covers(values, p, values[i])

(* Every percentile of the summary is the nearest-rank percentile of the   *)
(* times it is named for, from one timing to hundreds, and at the counts   *)
(* where the rank moves on.                                                *)
NearestRank ==
  timings # <<>> =>
    /\ IsPercentile(Totals, 50, summary.p50_total_s)
    /\ IsPercentile(Totals, 95, summary.p95_total_s)
    /\ IsPercentile(Totals, 99, summary.p99_total_s)
    /\ IsPercentile(Services, 95, summary.p95_service_s)
    /\ IsPercentile(Queues, 95, summary.p95_queued_s)

(* The split is coherent although each percentile may come from another    *)
(* call: neither the queue's nor the service's p95 exceeds the total's,    *)
(* and the total's percentiles grow with p.                                *)
SplitCoherent ==
  /\ summary.p95_service_s <= summary.p95_total_s
  /\ summary.p95_queued_s <= summary.p95_total_s
  /\ summary.p50_total_s <= summary.p95_total_s
  /\ summary.p95_total_s <= summary.p99_total_s
=============================================================================
