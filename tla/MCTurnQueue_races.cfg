SPECIFICATION Spec
CONSTANTS
  k1 = k1
  k2 = k2
  Keys = {k1, k2}
  None = None
  KindsOfPrompts <- InputFirst
  MaxItems = 2
  MaxStarts = 1
  MaxInterrupts = 1
  MaxNews = 1
  MaxFailures = 1
  MayAbandon = TRUE
INVARIANTS
  NoPromptTwice
  StartedInOrder
  TurnIsDriven
  NothingForgotten
CHECK_DEADLOCK FALSE
