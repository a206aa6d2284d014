CONSTANTS
  Workers = {w1, w2}
  Size = 3
  Bytes = {zero, a}
  Zero = zero
  MaxRequest = 2
  MaxRestarts = 1
SPECIFICATION FairSpec
INVARIANT TypeOK
PROPERTIES ImplementsMinionDisk CommandAnswered
