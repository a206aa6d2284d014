CONSTANTS
  read = read
  write = write
  AIs = {read, write}
  None = None
  Delta <- Intervals
  MaxPerforms = 2
  MaxTime = 2
SPECIFICATION FairSpec
INVARIANTS TypeOK OnePlace EarliestFirst NoLostTask
PROPERTIES ImplementsTimerService EveryTaskRuns
\* All AIs may be deleted.
CHECK_DEADLOCK FALSE
