CONSTANTS
  Workers = {w1, w2}
  MaxTasks = 2
  MaxStarts = 1
  None = None
SPECIFICATION FairSpec
INVARIANT NoConcurrentRun
INVARIANT OneTimeRunsOnce
INVARIANT EnqueuedIsOnItsWay
PROPERTY DueTaskRuns
