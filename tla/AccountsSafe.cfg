CONSTANTS
  Threads = {t1, t2}
  Nicks = {n1, n2}
  Names = {m1, m2}
  NoNick = none
  MaxPlayers = 2
  Instances <- MCInstances
  NoThread = free
SPECIFICATION Spec
INVARIANTS TypeOK UniqueLogin UniqueNames
PROPERTY SessionsSpec
SYMMETRY Symmetry
