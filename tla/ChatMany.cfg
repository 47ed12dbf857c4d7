\* Three calls, two at a time over one connection; the first may trickle.
CONSTANTS
  MaxRetries = 1
  BaseDelay = 1
  MaxDelay = 1
  Jitter = FALSE
  None = None
  Calls = {1, 2, 3}
  TimeoutS = 2
  Deadlines <- MCDeadlines
  Ages = {0}
  PoolSize = 1
  OwnsClient = TRUE
  NetPhases = 1
  Tricklers = {1}
  Statuses = {}
  Headers <- NoHeader
  Exceptions = {"TransportError"}
  Lag = 0
  MaxBegin = 8
  MaxNow = 8
  Prices <- MCPrices
  Strict = TRUE
  BudgetUsd = 4
  Model = "mini"
  Responses <- MCResponses
  LimitArg = 2
  MaxConcurrency = 1
SPECIFICATION FairBatch
INVARIANTS ManyTypeOK QueueOnlyBeyondPool DeliveredWithinBudget PaidIsRecorded QueueBound OverrunBound
PROPERTIES ImplementsBatch FullAllowance BatchEnds
