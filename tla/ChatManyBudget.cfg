\* Two calls, one at a time, the first of which costs more than the budget.
CONSTANTS
  MaxRetries = 0
  BaseDelay = 1
  MaxDelay = 1
  Jitter = FALSE
  None = None
  Calls = {1, 2}
  TimeoutS = 1
  Deadlines <- NoDeadline
  Ages = {0}
  PoolSize = 1
  OwnsClient = TRUE
  NetPhases = 1
  Tricklers = {}
  Statuses = {}
  Headers <- NoHeader
  Exceptions = {"TransportError", "DecodingError"}
  Lag = 0
  MaxBegin = 4
  MaxNow = 4
  Prices <- MCPrices
  Strict = TRUE
  BudgetUsd = 1
  Model = "mini"
  Responses <- Paid
  LimitArg = 1
  MaxConcurrency = 1
SPECIFICATION FairBatch
PROPERTY StopsWhenBroken
