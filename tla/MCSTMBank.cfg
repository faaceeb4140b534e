CONSTANTS
  t1 = t1
  t2 = t2
  t3 = t3
  AccA = AccA
  AccB = AccB
  Ledger = Ledger
  NoThread = NoThread
  Threads <- MCThreads
  TVars <- MCTVars
  InitBalance <- MCInitBalance
  Jobs <- MCJobs
SPECIFICATION FairSpec
INVARIANT BooksBalance
INVARIANT IInv
PROPERTY TransfersAreAtomic
PROPERTY AllTransfersReturn
