CONSTANTS
  k1 = k1
  k2 = k2
  NoClient = NoClient
  Clients <- MCClients
  MaxUnits <- MCMaxUnits
  Room = 1
  Kinds <- MCKinds
  MaxFd = 2
  Listener <- MCListener
  ReadSize = 1
  HighWater = 0
  InboxHigh = 1
  InboxLow = 0
SPECIFICATION FairSpec
INVARIANT NoCallbackOfTheClosed
INVARIANT IInv
PROPERTY EverythingEchoed
PROPERTY EndedAreClosed
PROPERTY IsEchoService
