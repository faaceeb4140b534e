CONSTANTS
  t1 = t1
  t2 = t2
  t3 = t3
  accA = accA
  accB = accB
  accC = accC
  NoThread = NoThread
  Threads <- MCThreads
  Accounts <- MCAccounts
  InitBalance <- MCOpening
  Id <- MCDistinct
  Jobs <- MCRing
SPECIFICATION FairSpec
INVARIANT DeadlockFree
INVARIANT IInv
PROPERTY AllCallsReturn
PROPERTY CallsAreAtomic
