CONSTANTS
  f1 = f1
  f2 = f2
  f3 = f3
  f4 = f4
  Processes = {p1, p2}
  Files = {f1, f2, f3, f4}
  VersionOf <- MCVersionOf
  Tolerant = {f2}
  MaxRuns = 5
  None = None
SPECIFICATION Spec
CHECK_DEADLOCK FALSE
INVARIANTS NeverTwice TableTellsTruth NoGaps
SYMMETRY Symmetry
