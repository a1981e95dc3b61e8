\* Five groups over four chunks, one tied and one empty.
SPECIFICATION EagerSpec
CONSTANTS
  Chunks = {"a", "b", "c", "d"}
  Needs <- TiedPlan
INVARIANTS
  HoldsExactlyTheNeeded
  CompleteMeansEverything
  AbortInTimeWins
PROPERTIES
  LeavingEnds
