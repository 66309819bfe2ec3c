CONSTANTS
  NoValue = NoValue
  Programs <- MCPrograms
  Commands <- MCCommands
  Requests <- MCRequests
  MaxDepth = 5
  NeedsFlags <- PipelineNeedsFlags
  Looked <- Visited
SPECIFICATION EntrySpec
CHECK_DEADLOCK FALSE
INVARIANTS FlagsForeseen FlagsAreGranted OverflowHidden TestsAgree EveryRouteAnswers
