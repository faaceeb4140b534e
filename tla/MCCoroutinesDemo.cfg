CONSTANTS
  A = A
  B = B
  C = C
  Order <- MCOrder
  Rotator = A
  Suspensions <- MCDemo
  Kinds <- MCFallback
SPECIFICATION SchedFairSpec
PROPERTY DemoCompletes
CHECK_DEADLOCK FALSE
