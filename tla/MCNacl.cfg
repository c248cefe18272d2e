SPECIFICATION NaclSpec
CONSTANTS
  Ports = {0, 1, 2, 3}
  Remotes = {"near", "far"}
  Rules <- MCRules
  Flows <- MCFlows
INVARIANTS NaclTypeOK NaclVerdictIsTrue
CHECK_DEADLOCK FALSE
