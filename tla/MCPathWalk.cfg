SPECIFICATION FairSpec
CONSTANTS
  Networks <- MCNetworks
  Kind = "recorded"
INVARIANTS TypeOK WalkIsTrue SameAnswer
INVARIANT AsymmetryIsTrue
PROPERTY Answers
CHECK_DEADLOCK FALSE
