SPECIFICATION Spec
CONSTANTS
  root = root
  none = none
  shop = shop
  Root = root
  None = none
  Queries <- MCQueries
  Pipelines <- MCPipelines
  KeyString <- MCKeyString
  Nesting <- MCNesting
INVARIANTS ContextWhole OwnAnswer AnswerIsWhole
PROPERTIES Ends
CHECK_DEADLOCK FALSE
