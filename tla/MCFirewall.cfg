SPECIFICATION FirewallSpec
CONSTANTS
  MaxPort = 3
  Width = 2
  Cases <- MCCases
INVARIANTS FirewallTypeOK FirstMatchWins LayerResultIsTrue
CHECK_DEADLOCK FALSE
