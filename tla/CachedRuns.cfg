CONSTANTS
  Runs = {r1, r2}
  Keys = {k1}
  Ttls = {1}
  Sizes = {1, 2}
  MaxEntries = 2
  MaxEntrySize = 1
  MaxTotalSize = 9
  Grace = 2
  Takeover = 1
  MaxTime = 2
  None = None
  Faults = {"error", "5xx", "abort"}
  MaxDepth = 2
  MaxFrames = 3
  MaxSaves = 2
SPECIFICATION Spec
INVARIANTS SlotHasOwner FailuresNeverCached
SYMMETRY Symmetry
