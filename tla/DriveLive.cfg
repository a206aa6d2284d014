CONSTANTS
  MINION_SIZE = 1
  Values = {zero, a}
  Zero = zero
  MaxUid = 4
  MaxRequests = 2
  Blocks = {0}
  Requests <- ReadsAndWrites
  POLL_LIMIT = 2
  BlockLen = 3
  StatusLen = 2
  MaxShort = 0
  FirstFd = "udp"
  Lossy = {"MinionReadMsg", "MinionWriteMsg"}
  MaxDups = 0
  MapRaces = TRUE
  MaxInterrupts = 0
  MaxRestarts = 1
  PromptTimers = TRUE
SPECIFICATION FairSpec
INVARIANT CountersHitLimit
PROPERTIES WriteAnswered ReadAnswered
\* The kernel may stop issuing requests.
CHECK_DEADLOCK FALSE
