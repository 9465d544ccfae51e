SPECIFICATION Spec
CONSTANTS
  Id = {"task_1", "task_2"}
  NoId = "no_id"
  ValidType = {"TASK"}
  OtherType = {"none", "INVALID"}
  Unhashable = "unhashable"
  NoDict = "no_dict"
  Mutations <- MCMutations
  MaxBatch = 3
  MaxCalls = 2
  Graphs <- MCGraphs
  Roots <- MCRoots
INVARIANTS
  BatchAllOrNothing
  NestedRunsSound
CHECK_DEADLOCK FALSE
