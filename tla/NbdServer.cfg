CONSTANTS
  MaxRequests = 4
  PayloadLen = 2
  MaxSignals = 2
SPECIFICATION FairSpec
INVARIANTS TypeOK InFrame AnsweredBeforeEnd
PROPERTIES SignalEndsServer ServerStarts
\* The server returns.
CHECK_DEADLOCK FALSE
