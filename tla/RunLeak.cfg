\* One run: does it close its client?
SPECIFICATION Spec
CONSTANTS
  L = 2
  Tied = FALSE
  Splits = {1}
  Prompts = {1}
  MaxTokens = 2
  MaxCtx = 4
  ServerCtx = {4}
  Pings = 1
  MaxRuns = 1
INVARIANTS
  RunClosesItsClient
CHECK_DEADLOCK FALSE
