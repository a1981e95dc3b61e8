\* Every workload: eviction under quota, evictModel, clear, closed tabs.
SPECIFICATION FairSpec
CONSTANTS
  Shas = {"a1", "a2", "a3", "b1", "b2", "y"}
  Models = {"A", "B", "C"}
  Tabs = {1, 2}
  Size <- UnitSizes
  Workloads <- AllWorkloads
INVARIANTS
  MetadataMatchesBodies
  LoadedChunksStay
  EvictedModelIsGone
PROPERTIES
  OwnChunksAreProtected
  OperationsEnd
