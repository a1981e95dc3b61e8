\* Two workers over two chunks, one retry, with every kind of store; requests
\* need not be answered, except where LoadSettles assumes it.
SPECIFICATION LocalSpec
CONSTANTS
  NumChunks = 2
  Workers = {w1, w2}
  Retries = 1
  StoreKinds = {"none", "per-site", "cross-site"}
INVARIANTS
  TypeOK
  ExactlyOnceVerified
  FailureIsEarned
  CacheIsHealed
PROPERTIES
  AbortIsReported
  ImplementsDelivery
  ClosedLoadSettles
  LoadSettles
