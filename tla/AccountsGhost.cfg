CONSTANTS
  Threads = {t1, t2}
  Nicks = {n1, n2}
  Names = {m1}
  NoNick = none
  MaxPlayers = 2
  Instances = {1, 2}
  NoThread = free
SPECIFICATION Spec
INVARIANT RefusedOnlyIfOnline
