CONSTANTS
  MINION_SIZE = 1
  Values = {zero, a}
  Zero = zero
  MaxUid = 4
  MaxRequests = 2
  Blocks = {0}
  Requests <- ReadsAndWrites
  POLL_LIMIT = 2
  BlockLen = 2
  StatusLen = 1
  MaxShort = 1
  FirstFd = "udp"
  Lossy = {}
  MaxDups = 1
  MapRaces = TRUE
  MaxInterrupts = 0
  MaxRestarts = 0
  PromptTimers = FALSE
SPECIFICATION Spec
ACTION_CONSTRAINT EarlyRepeat
INVARIANTS TypeOK SuccessMeansReplicated RepliesInStep
PROPERTY OneReply
\* The kernel may stop issuing requests.
CHECK_DEADLOCK FALSE
