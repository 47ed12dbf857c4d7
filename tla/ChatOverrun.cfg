\* One call whose request takes two timed operations.
CONSTANTS
  MaxRetries = 1
  BaseDelay = 1
  MaxDelay = 3
  Jitter = TRUE
  None = None
  Date = Date
  Calls = {c1}
  TimeoutS = 2
  Deadlines <- MCDeadlines
  Ages = {0, 1}
  PoolSize = 1
  OwnsClient = TRUE
  NetPhases = 2
  Tricklers = {c1}
  Statuses = {429, 503, 400}
  Headers <- MCHeaders
  Exceptions = {"TransportError", "DecodingError"}
  Lag = 0
  MaxBegin = 0
  MaxNow = 21
SPECIFICATION Spec
INVARIANT DeadlineHonoured
