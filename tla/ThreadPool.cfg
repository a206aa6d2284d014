CONSTANTS
  Threads = {w1, w2, w3}
  First = {w1, w2}
  Counts = {1, 3}
  Tasks = {a, b}
  Priorities = {1}
  MaxCalls = 2
SPECIFICATION FairSpec
INVARIANTS TypeOK OneStraggler LogComplete
PROPERTIES ImplementsTaskService EveryTaskDelivered DestructorsReturn
\* The program ends.
CHECK_DEADLOCK FALSE
