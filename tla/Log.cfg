CONSTANTS
  Host = {h1}
  Stores = {"files", "rows"}
  Fragile = {"files"}
  CompactEvery = 2
  MaxBatches = 5
  MaxDamage = 1
  MaxSeq = 7
SPECIFICATION Spec
INVARIANTS AckedSurvive MemoryIsDisk
PROPERTIES ImplementsDurable
