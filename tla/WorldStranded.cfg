SPECIFICATION Spec
CONSTANTS
  Players = {p1, p2}
  BossWaits = {6}
  Gather = 3
  Leave = 2
  WinTime = 6
  Clean = 4
  WinEnd = 2
  AreaWait = 3
  AreaGo = 2
  AreaTime = 3
  Uninitialised = {0}
PROPERTIES DeathLeavesArena
