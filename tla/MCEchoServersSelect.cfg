CONSTANTS
  k1 = k1
  k2 = k2
  NoClient = NoClient
  Clients <- MCClients
  MaxUnits <- MCMaxUnits
  Room = 1
  MaxFd = 2
  Listener <- MCListener
  NoFd <- MCNoFd
  Kinds <- MCSelect
SPECIFICATION Spec
INVARIANT LoopSurvivesClients
