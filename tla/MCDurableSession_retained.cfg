\* Another input is stored before the turn's action, and the process ends.
SPECIFICATION Spec
CONSTANTS
  once = once
  again = again
  kept = kept
  dropped = dropped
  None = None
  Actions <- MCActions
  Retryable <- MCRetryable
  Commands <- MCCommands
  Marked <- MCMarked
  MaxRestarts = 1
  MaxInputs = 1
  MaxInterrupts = 0
  MaxFaults = 0
CHECK_DEADLOCK FALSE
INVARIANT RetainedHaveIntent
