CONSTANTS
  p1 = p1
  p2 = p2
  q1 = q1
  q2 = q2
  main = main
  None = None
  Items <- MCItems
  Threads <- MCThreads
  Kinds <- MCKinds
  Ops <- MCOps
  Size <- MCSize
SPECIFICATION FairSpec
INVARIANT IInv
INVARIANT NobodySleepsThrough
PROPERTY EveryCallReturns
