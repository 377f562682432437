\* Two restarts, a write that fails, an interruption and another input.
SPECIFICATION Spec
CONSTANTS
  once = once
  again = again
  kept = kept
  dropped = dropped
  None = None
  Actions <- MCActions
  Retryable <- MCRetryable
  Commands <- MCCommands
  Marked <- MCMarked
  MaxRestarts = 2
  MaxInputs = 1
  MaxInterrupts = 1
  MaxFaults = 1
CHECK_DEADLOCK FALSE
INVARIANTS
  EffectOnce
  HeardIsStored
  JournalInOrder
  AnsweredAtClose
  NobodyStuck
  WaitsEnd
