CONSTANTS
  Keys = {k1, k2, k3}
  Configs <- Shared
  MaxEntries = 2
  Tps = 2
  Word = 4
  Horizon = 2
SPECIFICATION FairSpec
INVARIANTS CountWithinLimit AtMostTwoWindows
PROPERTIES NobodyStarves
