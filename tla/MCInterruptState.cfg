SPECIFICATION HandlerFairSpec
CONSTANTS
  MaxWaves = 3
  MaxSignals = 3
INVARIANTS
  TypeOK
  CheckpointPhaseValid
  CancelIsReported
PROPERTIES
  NoFenceAfterAnswer
  AnswerTellsTheTruth
  SecondInterruptEndsRun
  RunEnds
CHECK_DEADLOCK FALSE
