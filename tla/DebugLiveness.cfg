CONSTANTS
  Threads = {t1}
  Lines = {1}
  MaxDepth = 2
  Modes = {"serve", "oneshot"}
  MaxQueue = 1
  Repeats = TRUE
  MayLeave = TRUE
SPECIFICATION FairDebugging
CHECK_DEADLOCK FALSE
INVARIANTS RunsConfigured
PROPERTIES ResumeReaches OrphansEnd
