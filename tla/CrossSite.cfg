\* Two calls of a page, in every kind of browser.
SPECIFICATION FairSpec
CONSTANTS
  Calls = {"a", "b"}
  Browsers = {"handle", "partitioned", "plain", "none"}
  Kept = {"none", "denied"}
INVARIANTS
  SharedStoreWorks
PROPERTIES
  VerdictIsEarned
  CallsReturn
