SPECIFICATION FairSpec
CONSTANTS
  NumMasters = 2
  HeartbeatEvery = 5
  GiveUp = 23
  Freq = 0
  QueryTimeout = 1
  RedoAfter = 1
  BuildEvery = 1
  ExpireTime = 35
  Tries = 4
  MaxServers = 3
  MaxSent = 3
  Others <- TwoMasters
  Uptime = 3
  Opens = {{}, {"alt"}}
  MaxLookup = 1
  MaxFaults = 1
INVARIANTS TypeOK OnlyReachableListed
PROPERTIES StaysPublished GetsPublished ToldOfFirewall
