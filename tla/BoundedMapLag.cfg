\* Four items through two permits on an event loop that may be late by up to
\* a clock unit: every interleaving of starts, wake-ups, ends, a
\* cancellation and the clock.
CONSTANTS
  N = 4
  Limit = 2
  None = None
  MaxService = 1
  LoopLag = TRUE
  MaxNow = 1
SPECIFICATION Spec
INVARIANTS TypeOK PermitsConserved AdmissionLimit AdmittedInOrder WorkConserving
PROPERTY ImplementsBatch
