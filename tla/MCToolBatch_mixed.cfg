\* Direct calls of every kind and beside a program, whose replay may leave its journal.
SPECIFICATION LiveSpec
CONSTANTS
  Batches <- Mixed
  Args <- MCArgs
  Policy <- MCPolicy
  MaxEffects = 2
  MaxRounds = 1
  MayDiverge = TRUE
CHECK_DEADLOCK FALSE
INVARIANTS
  NothingUnpermitted
  Checkpointable
  ReportedOnce
PROPERTIES
  AnswersRefined
  BatchEnds
  NeverReissued
  EveryAnswerMoves
