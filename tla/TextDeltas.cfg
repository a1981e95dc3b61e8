\* As Algorithms.cfg: every short text, and what is told of it token by token.
SPECIFICATION TextSpec
CONSTANTS
  Shas = {1, 2}
  MaxGroups = 3
  MaxOwn = 2
  MaxSegs = 1
  Budgets = {3, 4, 8, 9, 12}
  MaxFile = 6
  ChunkSize = 4
  Align = 2
  Q4Group = 2
  BlockRows = 2
  LeastCtx = 4
  MostCtx = 16
  CtxStep = 4
  NewTokens = 4
  Spare = 1
  CachedPieces = 1
INVARIANTS
  DeltasAreTheText
CHECK_DEADLOCK FALSE
