SPECIFICATION Spec
CONSTANTS
  VPCNames = {"A", "B"}
  Names = {"web", "twin"}
  Snapshots <- MCSnapshots
  Inputs <- MCInputs
  Gates = {"route", "security_group"}
  HostGates = {"host_firewall"}
  MaxFlows = 2
  MaxWrong = 1
INVARIANTS TypeOK WalksWhatWasNamed JudgementIsTrue ComparisonIsTrue
CHECK_DEADLOCK FALSE
