SPECIFICATION FairSpec
CONSTANTS
  Players = {p1, p2}
  BossWaits = {6, 9}
  Gather = 3
  Leave = 2
  WinTime = 6
  Clean = 4
  WinEnd = 2
  AreaWait = 3
  AreaGo = 2
  AreaTime = 4
  Uninitialised = {0, 1}
INVARIANTS HeldByAnEvent RoomsMatch FoePresent
PROPERTIES FightSpec EmptyFightEnds VictoryEnds
