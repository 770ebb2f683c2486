SPECIFICATION FairLifespanSpec
CONSTANTS
  NumSpecs = 5
  Beating = {1, 2, 3, 4}
CHECK_DEADLOCK FALSE
INVARIANTS LifespanTypeOK OneTaskPerSpec ClientsOutliveTasks
PROPERTIES SickTasksRestart ShutdownEnds
