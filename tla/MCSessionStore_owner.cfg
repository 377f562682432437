\* Three faults between and under the writes of an owner that may repair.
SPECIFICATION Spec
CONSTANTS
  ChunkSize = 2
  MaxRecords = 4
  MaxPublications = 2
  MaxRepairs = 1
  Faults <- OrdinaryFaults
  MaxFaults = 3
  MayRead = FALSE
  None = None
INVARIANT CacheIsTrue
PROPERTY LogKept
CHECK_DEADLOCK FALSE
