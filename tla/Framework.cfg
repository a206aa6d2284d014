\* Start, hot loading and exit with two plugins.
SPECIFICATION Spec
CONSTANTS
  Threads = {"main", "monitor"}
  Classes = {"DirMonitor", "DLLLoader", "Factory"}
  Plugins = {p1, p2}
  QuietExit = TRUE
INVARIANTS TypeOK OneInstance CodeOutlivesCreators
PROPERTIES HotLoaded StartsAndEnds
CHECK_DEADLOCK FALSE
