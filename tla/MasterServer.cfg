CONSTANTS
  MaxJobs = 4
  Workers = {w1, w2}
  Null = null
SPECIFICATION FairSpec
INVARIANTS TypeOK QueueIntact ResultsRead
PROPERTIES QueueSpec RefreshEnds
