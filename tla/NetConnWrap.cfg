CONSTANTS
  A = cl
  B = sv
  Servers = {}
  N = 6
  BufSure = 1
  BufCap = 2
  PktCap = 1
  ChunkMod = 256
  MaxLead = 2
  SendA = 6
  SendB = 0
  MaxSend <- MCMaxSend
  NetA = 2
  NetB = 2
  MaxNet <- MCMaxNet
  MaxClose = 0
SPECIFICATION Spec
CHECK_DEADLOCK FALSE
INVARIANTS TypeOK InOrder UndeliveredKept
PROPERTY StreamSpec
