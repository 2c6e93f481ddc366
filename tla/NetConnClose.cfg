CONSTANTS
  A = cl
  B = sv
  Servers = {sv}
  N = 6
  BufSure = 2
  BufCap = 2
  PktCap = 2
  ChunkMod = 2
  MaxLead = 2
  SendA = 1
  SendB = 1
  MaxSend <- MCMaxSend
  NetA = 1
  NetB = 1
  MaxNet <- MCMaxNet
  MaxClose = 2
SPECIFICATION ClosingSpec
CHECK_DEADLOCK FALSE
PROPERTY NoHalfOpen
