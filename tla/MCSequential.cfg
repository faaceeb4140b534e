CONSTANTS
  A = A
  B = B
  C = C
  Order <- MCOrder
  Rotator = A
  Suspensions <- MCSuspensions
  Kinds <- MCKinds
  None = None
  Programs <- MCPrograms
  Args <- MCArgs
  StackLimits = {14, 30}
SPECIFICATION Beside
INVARIANT LockStep
INVARIANT OnlyTheyEnd
INVARIANT SchedInv
PROPERTY EndsIffItMay
INVARIANT Results
INVARIANT StackUse
INVARIANT Traversed
INVARIANT ContInv
PROPERTY Ends
CHECK_DEADLOCK FALSE
