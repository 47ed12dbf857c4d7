\* Percentiles of small runs and of runs where a rank moves on; settings from
\* every combination of arguments, environment and two small files.
CONSTANTS
  None = None
  Default <- MCDefault
  Slashed <- MCSlashed
SPECIFICATION Spec
INVARIANTS NearestRank SplitCoherent FirstHitWins
