SPECIFICATION FairSpec
CONSTANTS
  NumSlots = 2
  Addrs = {a1, a2}
  Ips = {ip}
  Legacy = {a2}
  NoAddr = NoAddr
  MaxPerIP = 2
  ip = ip
  IpOf <- MCIpOf
INVARIANTS TypeOK SlotsAgree PlayersAgree OneSlotPerClient
PROPERTIES AdmissionSpec SlotsFreed JoinCompletes
