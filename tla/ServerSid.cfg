\* The same token twice, with the reaper between.
SPECIFICATION Spec
CONSTANTS
  Conns = {"c1", "c2", "c3"}
  Sids = {"A"}
  Bearer = "bearer"
  TokenOf <- OneToken
  MaxSessions = 2
  MaxCtx <- OnePosition
INVARIANTS
  SidIsOpenOnce
