\* A page clears the cache while another page has it open.
SPECIFICATION Spec
CONSTANTS
  Shas = {"a1", "a2"}
  Models = {"A"}
  Tabs = {1, 2}
  Size <- UnitSizes
  Workloads <- ClearedElsewhere
INVARIANTS
  LoadedChunksStay
