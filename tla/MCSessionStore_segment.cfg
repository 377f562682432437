\* Two publications fail, then a journal is cut back.
SPECIFICATION Spec
CONSTANTS
  ChunkSize = 2
  MaxRecords = 3
  MaxPublications = 3
  MaxRepairs = 1
  Faults = {"publish"}
  MaxFaults = 2
  MayRead = FALSE
  None = None
INVARIANT CurrentNamesAJournal
CHECK_DEADLOCK FALSE
