SPECIFICATION Spec
CONSTANTS
  Sizes = {2, 5}
  Uids = {1, 2}
  Volume = {7}
  Payloads = {"a"}
  Garbage = Garbage
  MaxMessages = 2
INVARIANTS
  InFrame
  RoundTrip
CHECK_DEADLOCK FALSE
