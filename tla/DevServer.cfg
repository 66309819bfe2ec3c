CONSTANTS
  main = main
  lib = lib
  util = util
  Files = {main, lib, util}
  Root = main
  Missing = Missing
  Bad = Bad
  None = None
  EnvDir <- MCEnvDir
  Contents <- MCContents
  StartDisks <- MCStartDisks
  MaxEdits = 3
  MaxRequests = 1
SPECIFICATION FairSpec
CHECK_DEADLOCK FALSE
INVARIANTS NothingForgotten LoadIsWhole ConfigIsServed
PROPERTIES Settles
