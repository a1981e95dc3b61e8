\* Two runs in a row, with plans that do and do not share the runtime.
SPECIFICATION FairSpec
CONSTANTS
  L = 2
  Tied = FALSE
  Splits = {1, 2}
  Prompts = {1, 2}
  MaxTokens = 2
  MaxCtx = 4
  ServerCtx = {1, 2, 4}
  Pings = 2
  MaxRuns = 2
INVARIANTS
  HalvesInStep
  PositionsAreAccepted
  ResolvedIsComplete
PROPERTIES
  RunSettles
\* Nothing happens after the last run.
CHECK_DEADLOCK FALSE
