CONSTANTS
  Pipelines <- MCPipelines
  Mains <- MCMains
  Types <- MCTypes
  Statuses <- MCStatuses
  MaxItems = 1
SPECIFICATION Spec
CHECK_DEADLOCK FALSE
PROPERTIES ErrorStands ImplementsRailway
