CONSTANTS
  w1 = w1
  w2 = w2
  Worker <- MCWorker
  Priority <- MCPriority
  MaxJobs = 4
SPECIFICATION FairSpec
INVARIANTS
  JobsAccounted
  NoLostWakeup
PROPERTIES
  JobsComeBack
  ImplementsJobService
