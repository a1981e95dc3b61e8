\* The report against the abort of the signal.
SPECIFICATION Spec
CONSTANTS
  Chunks = {"a", "b", "c", "d"}
  Needs <- TiedPlan
INVARIANTS
  AbortMidStreamIsNotReported
