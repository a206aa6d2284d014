CONSTANTS
  MINION_SIZE = 2
  Bytes = {0, 1}
  Zero = 0
  MaxRequest = 2
SPECIFICATION Spec
INVARIANTS TypeOK Mirrored
PROPERTY ImplementsBlockDevice
