CONSTANTS
  Keys = {k1, k2, k3}
  Bodies = {b1}
  Sizes = {1, 2, 4, 5}
  Ttls = {0, 1}
  MaxEntries = 2
  MaxEntrySize = 4
  MaxTotalSize = 3
  Grace = 2
  Takeover = 2
  MaxTime = 4
  None = None
SPECIFICATION Spec
INVARIANTS CountedWithinLimit NeverOvercounts SlotWithinWindow
PROPERTIES ExactUntilOverwrite NoTakeoverWithinGrace ImplementsSwr
SYMMETRY KeySymmetry
