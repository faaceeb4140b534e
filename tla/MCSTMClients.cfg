CONSTANTS
  t1 = t1
  t2 = t2
  t3 = t3
  t4 = t4
  AccX = AccX
  AccY = AccY
  NoThread = NoThread
  Threads <- MCThreads
  TVars <- MCTVars
  InitX = 1
  InitY = 10
  Need = 2
  Takers <- MCTakers
  Style <- MCStyle
  Depositors <- MCDepositors
  Program <- MCProgram
  DirectTVars <- MCDirect
  DirectValue = 5
  MaxDirect = 1
SPECIFICATION FairSpec
INVARIANT IInv
PROPERTY EveryThreadEnds
