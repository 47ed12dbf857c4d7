\* One call with a retry, every delay full jitter may pick, deadlines
\* shorter and longer than a retry, and an event loop that may be a unit late;
\* a request takes two timed operations, or trickles; and the client may close.
CONSTANTS
  MaxRetries = 1
  BaseDelay = 1
  MaxDelay = 3
  Jitter = TRUE
  None = None
  Date = Date
  Calls = {c1}
  TimeoutS = 2
  Deadlines <- MCDeadlines
  Ages = {0, 1}
  PoolSize = 1
  OwnsClient = TRUE
  NetPhases = 2
  Tricklers = {c1}
  Statuses = {429, 503, 400}
  Headers <- MCHeaders
  Exceptions = {"TransportError", "DecodingError"}
  Lag = 1
  MaxBegin = 0
  MaxNow = 17
SPECIFICATION FairSpec
INVARIANTS TypeOK OverrunBound CallBound CloseBound
PROPERTIES NoEarlyRetry NoEarlySurrender CallEnds
