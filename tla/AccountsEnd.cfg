CONSTANTS
  Threads = {t1, t2}
  Nicks = {n1, n2}
  Names = {m1}
  NoNick = none
  MaxPlayers = 1
  Instances <- MCInstances
  NoThread = free
SPECIFICATION FairSpec
PROPERTY JobsEnd
