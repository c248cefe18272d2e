SPECIFICATION Spec
CONSTANTS
  Endpoints <- MCEndpoints
  MaxInspections = 2
  MaxConditions = 1
INVARIANTS TypeOK AnswerIsTrue VerdictFollowsWalk NothingLeftOut
CHECK_DEADLOCK FALSE
