SPECIFICATION Spec
CONSTANTS
  k1 = k1
  k2 = k2
  Keys = {k1, k2}
  None = None
  KindsOfPrompts <- InputOnly
  MaxItems = 2
  MaxStarts = 0
  MaxInterrupts = 0
  MaxNews = 0
  MaxFailures = 0
  MayAbandon = FALSE
INVARIANTS
  PromptsPromoted
CHECK_DEADLOCK FALSE
