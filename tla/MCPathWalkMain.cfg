SPECIFICATION Spec
CONSTANTS
  Networks <- MCNetworks
  Kind = "main_tables"
INVARIANT SameAnswer
CHECK_DEADLOCK FALSE
