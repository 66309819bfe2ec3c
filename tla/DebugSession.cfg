CONSTANTS
  Threads = {t1, t2}
  Lines = {1}
  MaxDepth = 2
  Modes = {"serve"}
  MaxQueue = 1
  Repeats = FALSE
  MayLeave = TRUE
SPECIFICATION DebugSpec
CHECK_DEADLOCK FALSE
INVARIANTS PausedIsAwaited
PROPERTIES NoOvershoot
SYMMETRY ThreadSymmetry
