CONSTANTS
  a = a
  b = b
  Names = {a, b}
  Lists <- JoinLists
  MaxTasks = 3
  NoTask = NoTask
SPECIFICATION FairTasks
CHECK_DEADLOCK FALSE
INVARIANTS HandlesAreDisjoint
PROPERTIES JoinIsComplete JoinEnds
