CONSTANTS
  None = None
  Programs <- MCPrograms
  Args <- MCArgs
  StackLimits = {16}
  Order <- MCOrder
  Input <- MCInput
SPECIFICATION SessionSpec
INVARIANT TestsPass
CHECK_DEADLOCK FALSE
