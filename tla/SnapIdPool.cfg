SPECIFICATION Spec
CONSTANTS
  MaxIds = 3
  Rest = 1
  Half = 3
  EndOfTime = 7
INVARIANTS TypeOK ListsWhole UsageCounted
PROPERTIES RestKept PoolSpec RefusedRightly
