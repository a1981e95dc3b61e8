\* Two connections with one token and a third under the static token, two slots.
SPECIFICATION FairSpec
CONSTANTS
  Conns = {"c1", "c2", "c3"}
  Sids = {"A"}
  Bearer = "bearer"
  TokenOf <- Tokens
  MaxSessions = 2
  MaxCtx <- Contexts
INVARIANTS
  SessionsAreCounted
  CacheFollowsSeen
PROPERTIES
  SlotsComeBack
  ReaperCutsItsOwn
