CONSTANTS
  A = cl
  B = sv
  Servers = {sv}
  N = 6
  BufSure = 2
  BufCap = 2
  PktCap = 2
  ChunkMod = 256
  MaxLead = 2
  SendA = 0
  SendB = 2
  MaxSend <- MCMaxSend
  NetA = 1
  NetB = 1
  MaxNet <- MCMaxNet
  MaxClose = 0
SPECIFICATION FairSpec
CHECK_DEADLOCK FALSE
PROPERTY EventuallyDelivered
