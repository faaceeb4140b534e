CONSTANTS
  c1 = c1
  c2 = c2
  Clients <- MCClients
  Kinds <- MCKinds
  Program <- MCProgram
  MaxCalls = 7
SPECIFICATION FairSpec
INVARIANT IInv
INVARIANT StopInItsPlace
INVARIANT RightAnswers
PROPERTY EveryJobPrinted
PROPERTY IsPrintQueue
CHECK_DEADLOCK FALSE
