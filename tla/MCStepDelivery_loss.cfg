\* Every interleaving of four inputs with losses, strays and restarts.
SPECIFICATION Spec
CONSTANTS
  Messages = {m1}
  MaxInputId = 4
  None = None
  Calls <- CallsOfATurn
INVARIANTS MirrorExact HandedOutOnce
PROPERTY AppliedOnce
CHECK_DEADLOCK FALSE
