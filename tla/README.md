# Verification of llm-client-kit

This directory models the concurrent and timed core of `llm-client-kit`
(`src/llm_client_kit/`) in TLA+, checks the models with TLC on small instances
and proves the most important properties for every value of the constants with
TLAPS.  Line numbers below are those of the repository's files;
`PROJECT.json` gives the lines behind every definition.

## 1. The system

The library is a small asyncio client for OpenAI-shaped endpoints.  Everything
runs on one event loop: there are no threads, and a step of a coroutine is
atomic from one suspension point (`await`) to the next.  What makes the code
hard is what happens *between* suspension points: other calls run, time
passes, the caller cancels, the client is closed, somebody else pays.

```
 chat_many ── one() per item ── bounded_map ── asyncio.Semaphore, gather
     │                              │
     │                              └── RunStats, percentile
     └── LLMClient.chat ── Deadline, RetryPolicy          (retry.py)
              │   └── httpx.AsyncClient ── pool ── network
              │                    └── CassetteTransport  (record | replay)
              └── _finish ── Completion.from_payload
                       └── CostLedger.record_usage, check_budget
```

| Component | State it keeps | Operations | Interacts with | Hard behaviour |
|---|---|---|---|---|
| `bounded_map` (concurrency.py 86–124) | the semaphore's value and queue, `results`, `timings`, `stats.errors`, per task `submitted`, `started`, `t` | start, wait, wake-up, run, finish or fail, cancel, return | `fn`, asyncio's semaphore and gather, the clock | a permit given to a task that runs later; failures and cancellations at each suspension point; a late event loop |
| Run statistics (concurrency.py 58–84) | none | `summary`, `_pct` | reads the timings | ranks at the ends, float product |
| Retry policy, `Deadline` (retry.py) | a deadline's start and total | `should_retry`, `delay_for`, `remaining`, `clamp`, `check` | asked by `chat` | the deadline passes between a question and the use of its answer |
| `LLMClient.chat`, `aclose` (transport.py 267–383) | `attempt`, `last_error`, budget, `_closed` | one attempt, classification, sleep, parse and charge, close | httpx, policy, deadline, ledger | timeouts racing answers, truncated sleeps, close under a running call, pool contention |
| `LLMClient.chat_many` (transport.py 387–419) | none of its own | a batch of chats | `bounded_map` and `chat` | errors of the ledger swallowed as failures of an item |
| `CostLedger` (cost.py) | `entries` | `record`, `check_budget`, `would_exceed`, `by_model` | charged by `chat`, asked by callers | calls under way while the budget breaks, stale pre-flight answers, calls that are paid but not recorded |
| `Cassette` (cassette.py) | `interactions`, `_played`, the file, `mode` | record, save, load, find, play | sits under httpx | order of completion against order of request, a crash before save, replays after the tape is used up |
| `ClientConfig` (config.py) | frozen | `from_env`, `headers`, `redacted` | read by the client | precedence of sources |
| Payloads (transport.py 68–176) | none | parse and build JSON | `chat`, ledger | answers without a model or a usage, or of another model |

What makes each correct:

* **bounded_map** – at most `limit` items run; every permit comes back on every
  path; items are admitted in input order; no waiter is stranded; the reply has
  one result per item in input order with errors and timings that fit; the
  batch ends; queue time is the limit's doing and service time the work's.
* **retry and chat** – no more than `max_retries` retries; a retry never comes
  before the `Retry-After` the server sent; a call gives up only when its
  retries or its time are used up; how long a call can outlast its deadline;
  every call ends, and soon after a close, unless the server keeps it alive.
* **ledger** – the overspend of concurrent callers is bounded; the pre-flight
  check agrees with the check after the fact; every cent of the total is
  attributed to a model; callers that stop when it raises do stop, as long as
  what they record costs something.
* **cassette** – a replay answers what was recorded, in the recorded order per
  request; what a crash leaves behind never answers for a network it did not see.
* **chat_many** – a batch stops paying when its ledger says so; each call's
  deadline is its own; the ledger holds what every answer costs, once, whether or
  not the caller is given it.

## 2. Modules

| Module | Models | Extends / instantiates |
|---|---|---|
| `Batch` | abstract: what `bounded_map` promises its caller | – |
| `BoundedMap` | `bounded_map` with asyncio's semaphore and gather | `Batch` as `B` (refinement) |
| `BoundedMapProofs` | inductive invariant, safety, queue time, and `Spec => B!Spec` | `BoundedMap`, `Counting` |
| `Retry` | retry.py and the two functions of transport.py that feed it, as pure operators | – |
| `Chat` | concurrent `LLMClient.chat` calls over one httpx pool, and `aclose` | `Retry` |
| `ChatProofs` | inductive invariant, three theorems | `Chat`, TLAPS |
| `ChatTimeProofs` | how long calls last, with and without a deadline and after a close | `ChatProofs`, `Counting` |
| `Billing` | what a response is charged at, as pure operators | – |
| `Ledger` | `CostLedger` shared by loops that call, pay and stop | `Billing` |
| `LedgerProofs` | entries, overspend, pre-flight check, breakdown by model | `Ledger`, `Counting` |
| `ChatMany` | `chat_many`: `Batch`'s admission over `Chat`'s calls, charged by `Billing` | `Chat`, `Billing`; `Batch` as `B` (refinement) |
| `ChatManyProofs` | `Chat`'s invariants carried over, and the batch's own: deadlines, money, queueing, and `BatchSpec => B!Spec` | `ChatMany`, `ChatTimeProofs` |
| `Cassette` | recording and replaying sessions under chat's retry loop, with crashes | – |
| `CassetteProofs` | inductive invariants, four theorems | `Cassette`, TLAPS |
| `RunStats`, `Config` | percentiles of a run; layering of settings | – |
| `PureProofs` | nearest rank, coherence of the split, first hit wins | `RunStats`, `Config`, `Counting` |
| `Counting` | induction over naturals and finite sets, waves, sums over finite sets: the facts the other proofs share | TLAPS |
| `MCBoundedMap`, `MCChat`, `MCChatMany`, `MCLedger`, `MCCassette`, `MCPure` | values of constants for TLC; `MCPure` has the inputs of the last two | the above |

Definitions that stand right before another of the same parameters and are used
nowhere are mutants of it, against which the properties are tried.

### BoundedMap

One action per stretch of `one()` between suspension points.  `Start` runs up to
`sem.acquire()` (lines 109–113) and either takes a permit or queues; `Resume` is
the step after the semaphore's wake-up; `Complete` is everything after
`await fn(item)`: the result or `errors += 1`, the timing and the release of
the permit, which hands it to the next waiter in the same step.  `Cancel`,
`Unwind` and `Abort` are the caller's cancellation, what it does in each task
and the moment gather re-raises it; `Return` is the tail of the function.

`value` and the states `waiting` and `woken` are `Semaphore._value` and the
semaphore's deque.  A woken task already owns its permit but has not run: that is
the state in which a semaphore can lose a permit or let somebody overtake, so it
is kept apart from `running`.  The semaphore modelled is Python 3.11's
(`locked()` looks at the queue as well as the value; a resumed task wakes the
next one while permits are left; a cancelled task that was woken gives its permit
back).  It is library code and its definitions are marked external.  Since tasks
reach `acquire` in input order, the queue is ordered by item number and a set of
waiting items represents it.

Abstractions: an item's result is its number; `fn` is any work that ends, fails
or is cancelled.  `fn` that swallows `CancelledError` is left out (`chat` does
not).  asyncio's rule that a timer may fire up to one clock resolution early is
ignored.

### Retry and Chat

`Retry` has the decisions as operators over whole time units.  `delay_for` is
the set of delays the code may return (full jitter makes it a range).  `Chat`
has a program counter per call: `pooled` (waiting for a connection of the httpx
pool), `net` (waiting for the network), `sleeping`.  A step runs from one of
these to the next through every check in between: `Begin` and `Wake` end in
`Attempt`, the head of the loop (332–339); `Refuse`, `Break` and `Expire` end in
`Fail`, the rest of the loop after a failed attempt (340–361); `Finish` is
`_finish`, reduced to how it ends.

httpx is external and modelled by how chat uses it: the float given as `timeout`
limits every wait by itself (pool, connect, each write, each read), so a
request is a row of timed operations, each of which starts the timeout afresh.
How many there are is the server's to choose: a response that comes in small
pieces takes a read for each.  The model lets every request take up to
`NetPhases` of them, and the requests of the calls in `Tricklers` any number: a
request that goes beyond `NetPhases` *trickles*.  `phase` stops counting at
`NetPhases + 1`, and the history variable `trickled` remembers that it happened.
The code has nothing against it (the deadline is looked at between requests
only), so every bound on how long a call lasts, and `CallEnds`, say of which
calls they speak: those that do not trickle.

A client that is closed and owned raises `RuntimeError` on the next `post`, which
nobody retries; `closedAt` is when that began.  A request that waits in the pool
when the client is closed may still be granted a connection and go on the wire
(httpcore keeps it), so what can be said of a close is not that nothing is sent
after it but how soon the calls it finds are over, `CloseBound`.

### Billing and Ledger

`Billing` reads a response as `Completion.from_payload` and `Usage.from_payload`
do and prices it as `record` does: a usage that is missing counts as zero
tokens, a model that is missing is charged as the configured one, an unpriced
model raises or is free, more cached than prompt tokens are refused where there
is a price.  Money is exact in the code (`Decimal`) and is a whole number of
micro-dollars in the model.

In `Ledger`, loops call a model and charge the ledger when the call comes back;
`Call` is the decision (with `would_exceed` first if the loop `asks`; what the
call will cost is the caller's estimate, cost.py 213–215, and a loop of the model
estimates it exactly), `Charge` is `record_usage` followed by `check_budget` in one step, because nothing is
awaited between them.

### ChatMany

The composition: an item of the batch is a call of `Chat`.  `bounded_map` appears
as its abstract specification `Batch` describes it – that the semaphore
implements it is theorem `Refinement`, that the batch of chats does is theorem
`BatchKept` – so `Admit` lets the next item in input
order begin while fewer than `Limit` calls are under way, with a Deadline made
at that moment.  `Work` is any step of `Chat`'s loop, `Deliver` is all of
`_finish`: parse, record, check, and only then a completion.  Errors, the
ledger's included, end the item and nothing else, as `except Exception` has it.
`CancelBatch`, `Drop` and `Abort` are the caller's cancellation.
`deadline_s` is chosen once per batch, as chat_many's argument is.
Items that raise before they await anything (closed client, deadline of 0) take
and give back their permit in one step, which is `Batch`'s `AtOnce`.

### RunStats and Config

Two pure computations.  `_pct` sorts and indexes; `IsPercentile` states nearest
rank by counting.  The float product `p / 100.0 * len(s)` is replaced by an exact
quotient rounded up, which gives the same rank for the percentiles `summary`
asks for (0.95 and 0.99 are stored slightly too small, 0.5 exactly).  `from_env`
is a row of dictionary updates, compared with "first hit wins" stated directly.

### Cassette

Sessions follow one another on one file: `Open` resolves the mode (`auto` by the
file's existence) and loads, `Exit` saves, `save` may be called in between, and
`Crash` ends the process at any point, in the middle of `write_text` too, which
leaves a file that does not load (`Unreadable`).  In a session that records, a
request goes on the wire (`Send`) and is recorded when its answer comes
(`Receive`), so recordings lie in the order of completion; in one that replays,
`Play` answers at once from `find`.  `Hear`, `Retry` and `GiveUp` are chat's loop
as far as it decides whether a call asks again.  How long an exchange takes is
not on the tape, and the sleeps between attempts are jittered, so the module
has no clock: a call that has a deadline (one in `Hurried`) may find it passed
whenever chat looks, at the head of the loop (`GiveUp`, transport.py 332) or after
an attempt it would repeat (`Retry`, 356–360), and then ends as "expired",
`RetryBudgetExceeded` in the code.  That may happen in replay to a call that was
recorded as successful, and the reverse.

A request is its key (method, URL and body hash); an answer is its
status, reduced to what the loop tells apart, and whether its body came
compressed.  The cassette stores a body that httpx has decompressed beside the
headers that say it is not, and httpx then fails to decode it; that conversion is
part of `Hear`.  Three history variables (`heard`, `told`, `fates`) keep what the
calls got, for the properties.  Header scrubbing and the JSON text are left out.

## 3. Runs

| Run | Instance | Question and answer |
|---|---|---|
| `BoundedMapLag` | 4 items, limit 2, clock 0–1, late loop | Every order of starts, wake-ups, ends, a cancellation and a tick: `PermitsConserved`, `AdmissionLimit`, `AdmittedInOrder`, `WorkConserving`, and the refinement `ImplementsBatch` hold. |
| `BoundedMapWaves` | 5 items, limit 2, services up to 2, clock 0–8, punctual loop | `WaveModel`: item *i* queues at most ⌊(*i*−1)/limit⌋ services and its reported service time is its own. `BatchEnds` under fairness. |
| `BoundedMapNoPermit` | limit 0 | Finding: the batch never ends. |
| `ChatDeadline` | 1 call, 1 retry, jitter, deadlines none, 0, 2, 3, 5, aged by 0 or 1; headers none, a date, −1, 1, 4 (> `MaxDelay`); requests of 2 timed operations, or trickling; a loop up to 1 late; a close at any time, of a client of its own; clock 0–17 | `NoEarlyRetry`, `NoEarlySurrender`; for what does not trickle `OverrunBound`, `CallBound`, `CloseBound`, and `CallEnds` from timers and the clock. |
| `ChatOverrun` | 1 call | Finding about the deadline. |
| `ChatMany` | 3 calls, limit 2, 1 connection, 1 retry, deadline 2, budget 4; answers of a dear model, without a model, without a usage, unparsable; the first call may trickle; close and cancellation at any time; clock 0–8 | `QueueOnlyBeyondPool`, `OverrunBound`, `FullAllowance`, `QueueBound`, `DeliveredWithinBudget`, `PaidIsRecorded`, the refinement `ImplementsBatch`, and `BatchEnds` (unless a request trickles) under fairness. |
| `ChatManyBudget` | 2 calls, limit 1, the first breaks the budget | Finding: the second is sent all the same. |
| `LedgerLoop` | 2 loops that ask `would_exceed` first or do not, 3 models (one unpriced), usage that is fresh, cached, not reported, and two kinds `record` refuses; budget 2 | `OverspendBound` (one call per loop, one call less if every loop asks), `AttributionComplete`, `PreflightAgrees`, and, under fairness, `LoopsEnd` (unless a call is recorded for nothing). |
| `CassetteTape` | 3 calls, 2 with the same request, the third with a deadline, 1 retry, 2 sessions of any mode, crashes | `ReplaysRecording` (per request, replay gives what was heard, in order, then the first answer again), `KnownNeverMisses`, `SameEnd` (a call with a request of its own ends as it was recorded, unless its deadline cuts it off in either session). |
| `CassetteRepeat`, `CassetteZipped` | 2 calls with the same request | Findings about replay. |
| `PureFunctions` | every run of up to 3 calls, runs of 19 to 200 with up to 6 calls unlike the rest; settings from 30 × 30 files, 3 values of MAWORKS_SECRETS, environments and arguments | `NearestRank`, `SplitCoherent`, `FirstHitWins`. |

**Bounds.**  *BoundedMap*: 4 items through 2 permits is the least instance in
which two waiters queue while two run, so that two releases and two hand-overs
can meet; tasks may also start after others have ended, which gather never lets
them (every task reaches `acquire` before any is resumed), so the model allows more
orders than the code has; one tick separates every pair of clock readings that the
safety properties could confuse.  The clock range of `BoundedMapWaves` covers
all three waves of 5 items (3 × 2 units) with room to spare, so the bound never
cuts a batch off.  *Chat*: `MaxNow` = 17 is larger than
the 16 of `CallBound` (`MaxBegin`, the last time a call may begin, is 0), so the
clock's bound is never what ends a call that does not trickle; one retry makes a
first and a last attempt with a sleep between them, and 16 is larger than the 10
of `CloseBound`, so that a call which did not notice the close would show;
`NetPhases` = 2 is the least at which operations add up.  A call that trickles
goes on until the clock stops.  `ChatOverrun` has the same call on a punctual
loop.  Attempts are bounded by
`max_retries` itself.  *ChatMany*: three calls through two permits over one
connection queue once for a permit and once for the pool; the second wave begins
after at most 4 units (`QueueBound`) and lasts at most 4, which is `MaxBegin` =
`MaxNow` = 8.  A request has one timed operation there besides the wait for its
connection, and one kind of error besides the timeout; statuses and headers are
`ChatDeadline`'s.  The dear answer costs 3, the plain one 1, the budget is 4: two
dear ones break it, and a third may be under way.  The batch has the deadline 2, which is
shorter than its retries; without a deadline the instance is too large for the
liveness check, and the proofs cover it.  The loop is punctual there and the
proofs hold for any `Lag`.  *Ledger*: a call costs at most 4 and the budget is 2,
so a loop breaks it in one to three calls, with the other loop's call still under way;
`MaxEntries` = 5 is larger than the number of entries that budget admits at positive
prices (two within it and one more for each loop), so it stops no loop all of
whose calls cost something.  *Cassette*: two sessions are one that records and
one that replays what it left; two equal requests are the least that can take
each other's answers and a third is alone; that one has the deadline, since
`SameEnd` speaks of it only.  One retry is enough for a sequence of
two answers.  A symmetry of the two equal calls is used (safety only).
*PureFunctions*: 20, 40, 100 and 200 are where the ranks of p95 and p99 move
on.

Stutter steps named `Terminated` and `Idle` stand for a finished system
or a reached bound, so that TLC's deadlock check stays on everywhere.

**Fairness.**  *BoundedMap*: the event loop runs every ready task and `fn` ends
(`WF` on each item's step and on the coroutine's return).  `chat`, the `fn` that
`chat_many` passes, ends by `CallEnds`, unless the server lets a request trickle.  No fairness on `Cancel`.  *Chat*: the
clock advances, timers that are due are served and a free connection is handed
to a queued request; neither an answer nor a failure nor a cancellation is
assumed, so `CallEnds` rests on the client's own timeouts.  It speaks of calls none of
whose requests trickles: `NetPhases` is finite but of any size, and which calls
the server lets trickle is not the client's to decide.  *ChatMany*: the same,
and the event loop runs an item that is admitted, a call that is cancelled and
the coroutine when its calls have ended.  *Ledger*: each loop
goes on calling and every call comes back (`CallEnds` again, with its condition).

## 4. Proofs

| Theorem | Says | For every |
|---|---|---|
| `BoundedMapProofs!TypeCorrect` | `[]TypeOK` | N, Limit |
| `PermitConservation`, `AdmissionBound` | no permit lost or made up; at most `Limit` run | N, Limit |
| `OrderedAdmission` | input order | N, Limit |
| `NoLostWakeUp` | work conservation | N, Limit |
| `QueueTimeBounded` | `Spec => []WaveModel` | N, Limit, service times |
| `Refinement` | `Spec => ImplementsBatch` | N, Limit |
| `ChatProofs!TypeCorrect` | ranges; at most `max_retries` retries | calls, policies, deadlines, lateness |
| `RetryAfterObeyed` | `Spec => NoEarlyRetry` | the same |
| `GivesUpLate` | `Spec => NoEarlySurrender` | the same |
| `ChatTimeProofs!OverrunBounded`, `CallBounded` | `[]OverrunBound`, `[]CallBound`, of what does not trickle | the same, pools and phases |
| `ClosedSoonOver` | `[]CloseBound`: one request and one sleep after a close | the same |
| `ChatManyProofs!ManyTypeCorrect`, `PoolSized` | `[]ManyTypeOK`, `[]QueueOnlyBeyondPool` | batches, limits, pools, prices, lateness |
| `AllowanceIsOwn` | `BatchSpec => FullAllowance` | the same |
| `BatchOverrunBounded` | `[]OverrunBound` in a batch | the same |
| `DeliveriesAfforded` | `[]DeliveredWithinBudget` | the same |
| `SpentRegardless` | `[]PaidIsRecorded`: the ledger's total *equals* the price of the answers it could price | the same |
| `QueueBounded` | `[]QueueBound`: how long a call waits to begin, while none trickles | the same, punctual loops |
| `BatchKept` | `BatchSpec => ImplementsBatch` | the same |
| `LedgerProofs!TypeCorrect` | `[]TypeOK`: no entry of negative cost | loops, prices, reported usages |
| `OverspendBounded`, `SameLine` | `[]OverspendBound`, `Spec => PreflightAgrees` | the same |
| `AttributionExact` | `Spec => []AttributionComplete` | the same |
| `CassetteProofs!TypeCorrect` | `[]TypeOK` | calls, requests, answers, sessions |
| `AnswersReplayed`, `KnownFound` | `[]ReplaysRecording`, `[]KnownNeverMisses` | the same |
| `SameEnds` | `[]SameEnd`, of calls that no deadline cuts off | the same |
| `PureProofs!PercentileAtRank` | the value at the rank is the nearest-rank percentile | sequences, percentages 1 to 100 |
| `SummaryByNearestRank`, `SummaryCoherent` | `NearestRank`, `SplitCoherent`, if sorted() sorts | timings |
| `FirstHits` | `FirstHitWins` | arguments, environments, files |

*Assumptions* are the named `ASSUME`s of the modules: types of the constants,
that `None` is no value of the data, that there are finitely many calls, loops,
models and usages, and for `ChatMany` that the pool is sized as the constructor
sizes it.  `MaxNow` and
`MaxBegin` are naturals of any size.

*bounded_map.*  The checked invariants are not inductive by themselves.
`IInv` adds `InputOrder` (no task is further along than an earlier one, a
cancelled one excepted: this is what makes "the first waiter" and "the next in
line" the same task), `NoneStranded` (while somebody waits, no permit is idle
unless a wake-up is on its way) and `PastTimes`.  The heart is `WakeUpNext`: lemma
`WakeKeepsPermits` shows that a hand-over conserves permits and lemma
`WakeInvariant` that it keeps the order.  The limit then follows by counting,
`Running ⊆ Holders` and `value ≥ 0`, and `WorkConserving` from
`NoneStranded` and conservation.  For the refinement, `Reported` ties results,
errors and timings to how the tasks ended and `Finality` says that tasks are
cancelled only by a cancellation; then each action simulates one of `Batch`'s
actions or a stutter.

*Queue time.*  `InItsWave` puts on the clock what the run sees in the timings: an
item that waits has not waited longer than its wave's bound, and one that runs
began by that bound.  The step that matters is a tick: while item *i* waits and
no wake-up is under way, all permits are with items before it (`InputOrder`),
and of `Limit` different numbers below *i* one is at most *i* − `Limit`
(`Pigeonhole`), so it began a whole wave earlier (`WaveBefore`); and on a
punctual loop no tick passes a service that has lasted `MaxService`.

*chat.*  `SleepsLongEnough` carries the argument for `RetryAfterObeyed`: a sleep
lasts as long as the server asked, or up to the deadline.  In the second case
the check at the head of the loop finds the deadline passed and sends nothing.
Without that disjunct the invariant is false (the deadline does truncate the
sleep), and without the check the property is.  `RetriesLeft` gives the bound on
attempts, `Fresh` that a call has no error or outcome to inherit.

*How long a call lasts.*  The bounds speak of the clock, so they are not
inductive: what is, is a bound on the *timer* a call waits on.  `InTime` says
that the clock is at most `Lag` past that timer, that the timer of a sleep and
of the first operation of a request lies at or before the deadline (the clamp),
and that each later operation adds one clamped timeout and one `Lag`, until the
request trickles; without a
deadline, the timer is bounded by the attempts and operations used up so far, if
no request of the call has trickled.
`OverrunBound` and `CallBound` follow when the counts are replaced by their
maxima (`InTimeBounds`), which is where the products come in.  For `CloseBound`,
`WindsUp` measures the same timers from the close: none is set further ahead than a
timeout or a delay, and after the close the head of the loop sets none at all, so a
call has the operations of the request it is in, a wait for a connection
among them, and the sleep after it.

*chat_many.*  Except for a call that is dropped before it began, every step of
the batch is a step of `Chat` (lemma `ChatStep`), so its invariants carry over.
`Admitted` (at most `Limit` calls under way) and `OwnDeadline` (a call's deadline
starts when the call does) are the batch's own; `QueueOnlyBeyondPool` is
inductive only together with `Admitted`, since a call joins the queue exactly
when the pool is full.

The money is `MoneyInv`.  `PriceOf` states what an answer costs by what is in it,
not by the operators that `_finish` goes through (`ChargeIsPrice` shows that they
agree).  `WorthAdds` says what one answer adds to the worth of the answers so far,
and `DeliverKept` that `_finish` adds the same to the ledger if and only if
`record` accepts it, so the ledger's total is that worth exactly, and delivers
only if the ledger is then within its budget; the worth of what is delivered is
a part of the worth of what is recorded (`WorthPart`), so no order of the
deliveries can take it beyond.
`QueueInv` is the wave argument again, for calls: until a cancellation the calls
admitted are the first ones (`InTurn`), a call under way lasts at most `CallTime`
(`ActiveTime`, from `InTime`, as long as nothing trickles: `StillUntrickled` says that
this held before if it holds now), so one that is admitted began within the waves
before it (`StartsInTurn`).  For `BatchKept` a call's fate is read off its program
counter and its outcome: `AdmitEnds`, `DeliverEnds` and `WorkEnds` say what each
step may leave behind, `NoneDropped` that nothing but the caller's cancellation
cancels a call, and so every step is one of `Batch`'s or a stutter.

*ledger.*  Entries have natural costs because `record` refuses more cached than
prompt tokens wherever a price applies; `CostIsNat` is that argument.
`OverspendBound` needs two invariants.  `Overspent`: each loop that the ledger has
stopped took it over the budget, or further over, by one call, so the total is
within the budget and one call for each stopped loop.  `Committed`, if every loop
asks first: what is spent *and what is under way* stays within the budget and
one call for every loop but one, since the loop that asked last was told that
its own call still fits, with all others under way unseen.  `AttributionExact`
follows `by_model` through its loop: `ByModelIsFold` names the fold's parts,
`ByModelAppended` is the body for one more entry, and `Attributes` – each model
has the sum of its own entries, the models together the total – is kept by it.

*Sums.*  The library's induction theorems take a predicate as a parameter, which
the provers cannot instantiate.  `Counting` does induction over *sets* instead: the
set of the naturals for which a statement holds contains 0 and successors, so
it is `Nat` (from the well-foundedness of < on `Nat`); likewise for a family of
subsets of a finite set.  From it follow existence and uniqueness of the
recursion by which the community modules define folds over sets, and then what
a sum over a finite set is worth when an element is added, left out or changed.

*cassette.*  A tape `Transcribes` what was heard if, for each request, some
increasing function lists the positions of its interactions and the answers
there (`Indexes`).  Appending an interaction and an answer keeps this
(`AppendTranscribes`), saving and loading carry it over to the next session, and
a session that replays has played exactly the positions that index what it has
heard (`PlayedInOrder`).  Then `find`'s "first match that has not been played" is
the next position of the index (`FindByIndex`), which is what
`ReplaysRecording` needs; a request without a position has heard nothing, which
is `KnownNeverMisses`.  For `SameEnd`, `Course` matches a call that has its request
to itself with the answers of the request: all but the last are ones that chat
retries, the last one decides how the call ended, and a replayed call that
failed was refused or had used up its attempts.  Two calls with the same answers
at their ends then end alike, a call that its deadline ended (`ExpireCourse`)
excepted, which may have heard any part of them.

*Pure functions.*  A value that is r-th in order has at least r values at or below
it and fewer than r below it (`AroundRank`, by counting the positions on either side
through the permutation that sorted the values); `Rank` is p·n/100 rounded up
(`RankIs`), so the value there is the smallest that p in a hundred do not exceed.
Values that are no larger one by one are no larger rank by rank
(`DominatedRank`), which is `SplitCoherent` although the percentiles may come from
different calls.  The model sorts with TLC's `SortSeq`, of which the provers know
nothing, as the code sorts with Python's `sorted`: both theorems take as a
hypothesis, `SortedSorts`, that it returns the same values in order, and `MCPure`
has TLC evaluate that for all sequences of up to four of three values.
`FirstHits` unfolds the row of updates source by source (`EnvHit`); in a file the
last assignment counts (`FileHit`).

*Only model-checked:* liveness (`BatchEnds`, `CallEnds`, `LoopsEnd`), which is out
of the prover's reach, and the five findings, which are counterexamples.  Every
safety property that a passing run checks is a theorem too.

## 5. Findings

1. **`max_concurrency = 0` hangs `chat_many`** (transport.py 418;
   `BoundedMapNoPermit`).  `limit or self.config.max_concurrency` passes 0 on to
   `Semaphore(0)`, while the constructor guards the same value with `max(…, 1)`.
2. **A call can outlast its deadline** (transport.py 336; `ChatOverrun`).
   The remaining budget becomes httpx's `timeout`, which limits each operation
   by itself, whereas retry.py 12–13 and config.py 53–54 promise that the budget
   is honoured.  `OverrunBound` states what does hold: one more timeout for each
   operation but the first, and no bound at all on a response that trickles in,
   each piece within a timeout.
3. **A broken budget does not stop a batch** (concurrency.py 116;
   `ChatManyBudget`).  `except Exception` counts `BudgetExceeded` as one more failed
   item, so `chat_many` goes on sending requests that are paid for, recorded, and
   turned into `None`; nobody hears of the budget.  README.md 85 and
   tests/test_transport.py 439 promise that a run stops.  What does hold is
   `DeliveredWithinBudget` and `PaidIsRecorded`.
4. **Equal requests share one queue of recordings** (cassette.py 258;
   `CassetteRepeat`).  Of two equal calls that failed once and then succeeded, one may
   hear both failures in replay and fail; when all are played, the first
   recording – the failure – answers for ever.  `find`'s docstring promises the
   sequence "rather than … the first response forever".
5. **Compressed answers break the cassette** (cassette.py 332 and 278;
   `CassetteZipped`).  The body is stored decompressed under headers that say
   `content-encoding`, so building the response raises `DecodingError`, both when
   recording and when replaying.

Smaller observations without a run:

* When a delay reaches the deadline, chat sleeps up to the deadline and raises
  then, although no attempt can follow (transport.py 356–361; retry.py 31 words
  it as raised when another attempt *would* exceed the deadline).
* `check_budget`'s docstring (cost.py 198) says that it raises if spend has
  *reached* the budget; the code and `tests/test_cost.py` 64 let spend that equals
  the budget pass, and so does the model.
* `record` raises `KeyError` for an unpriced model and `ValueError` for odd counts
  before it appends (cost.py 149–151), so such a call is paid for and not in the
  ledger; the class comment (116–117) says that it does not raise on its own.
  `PaidIsRecorded` excepts these calls.
* A response without a usage is recorded at no cost, so a budget does not end a
  loop that gets such responses (`LoopsEnd` excepts it), and one without a model is
  charged at the configured model's price even if `chat(model=…)` asked for
  another (transport.py 124, 381).
* config.py 3 counts two environment variables; the code reads `OPENAI_MODEL` and
  `MAWORKS_SECRETS` too.  A variable that is set to nothing counts as a hit.
  `redacted` shows keys of up to four characters in full (87).

## 6. Plan

Done: `Batch`, `BoundedMap` and `ChatMany` with their refinements; `Retry`, `Chat` and their
theorems, the bounds on time included; `Billing`, `Ledger`, `Cassette`,
`RunStats` and `Config`, with every safety property of the runs as a theorem.

What could still be added, in this order: an abstract ledger (an amount and a budget) that
`Ledger` and the money of `ChatMany` both implement; and the cassette's
transcript as an abstract specification that a record and a replay refine.

## 7. Not modelled

Building a request body and the text of a completion, `ledger.summary`,
`remaining_usd`, `prices_from_mapping`, `headers`, `redacted`, the cassette's scrubbing
of headers, its hash of a request and its JSON text, and the package's version
constant: they convert or format values and decide nothing that the properties
tell apart.  `scripts/` generates benchmarks and reports from the library and is
read, as the tests and results are, only for what it claims.  Real-valued time is
whole units; logging is left out.
