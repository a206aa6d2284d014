CONSTANTS
  MINION_SIZE = 1
  Values = {zero, a}
  Zero = zero
  MaxUid = 4
  MaxRequests = 2
  Blocks = {0}
  Requests <- ReadsAndWrites
  POLL_LIMIT = 2
  BlockLen = 3
  StatusLen = 2
  MaxShort = 0
  FirstFd = "udp"
  Lossy = {}
  MaxDups = 0
  MapRaces = FALSE
  MaxInterrupts = 0
  MaxRestarts = 0
  PromptTimers = FALSE
SPECIFICATION Spec
PROPERTY ConfirmedMeansSuccess
\* The kernel may stop issuing requests.
CHECK_DEADLOCK FALSE
