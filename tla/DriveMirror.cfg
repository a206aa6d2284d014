CONSTANTS
  MINION_SIZE = 1
  Values = {zero, a, b}
  Zero = zero
  MaxUid = 8
  MaxRequests = 4
  Blocks = {0, 1}
  Requests <- ReadsAndWrites
  POLL_LIMIT = 2
  BlockLen = 3
  StatusLen = 2
  MaxShort = 0
  FirstFd = "udp"
  Lossy = {}
  MaxDups = 0
  MapRaces = FALSE
  MaxInterrupts = 1
  MaxRestarts = 0
  PromptTimers = FALSE
SPECIFICATION Spec
SYMMETRY Symmetry
CONSTRAINT NoFailure
INVARIANTS ReadsSeeLastWrite MirrorsAgree OneCommandPerMinion
\* The kernel may stop issuing requests.
CHECK_DEADLOCK FALSE
