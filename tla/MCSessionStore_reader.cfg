\* A process without a lease reads at any moment, and a write may fail in any way.
SPECIFICATION Spec
CONSTANTS
  ChunkSize = 2
  MaxRecords = 2
  MaxPublications = 3
  MaxRepairs = 1
  Faults <- AllFaults
  MaxFaults = 1
  MayRead = TRUE
  None = None
INVARIANTS ReaderSeesALogOfItsSegment ReaderFailsOnlyBehind ChunksOutliveManifests
PROPERTY GenerationsNeverRewritten
CHECK_DEADLOCK FALSE
