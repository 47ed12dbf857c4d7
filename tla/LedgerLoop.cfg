\* Two loops that call until the ledger raises: fresh and cached input, answers
\* that report no usage, a model without a price, and reports that record refuses.
\* MaxEntries is more calls than the budget lets them pay for.
CONSTANTS
  Agents = {a1, a2}
  Prices <- MCPrices
  Usages <- MCUsages
  Budget = 2
  Strict = TRUE
  None = None
  MaxEntries = 5
SPECIFICATION FairSpec
INVARIANTS TypeOK OverspendBound AttributionComplete
PROPERTIES PreflightAgrees LoopsEnd
