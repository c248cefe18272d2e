SPECIFICATION FairSpec
CONSTANTS
  Targets <- MCTargets
  Limit = 2
  Resources <- MCResources
  Objects <- MCObjects
  Sees <- MCSees
  Needs <- MCNeeds
  Nested = {"tgw_route_tables"}
  Timed = TRUE
INVARIANTS TypeOK NothingMissesSilently
PROPERTIES ImplementsPromise Returns
CHECK_DEADLOCK FALSE
