CONSTANTS
  k1 = k1
  k2 = k2
  NoClient = NoClient
  Clients <- MCClients
  MaxUnits <- MCMaxUnits
  Room = 1
  Kinds <- MCKinds
  MaxFd = 2
  Listener <- MCListener
  NoFd <- MCNoFd
SPECIFICATION FairSpec
INVARIANT NoLostEdge
INVARIANT IInv
INVARIANT LoopEndsOnlyAfterAClient
PROPERTY EverythingEchoed
PROPERTY IsEchoService
