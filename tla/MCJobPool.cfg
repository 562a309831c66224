SPECIFICATION FairSpec
CONSTANTS
  MaxJobs = 3
  MaxThreads = 3
INVARIANT
  Barrier
PROPERTIES
  ImplementsJobBatch
  CallReturns
