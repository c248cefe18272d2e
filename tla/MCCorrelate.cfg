SPECIFICATION Spec
CONSTANTS
  MaxFindings = 3
  MCLayers = {"firewall", "return_path", "host_listener"}
  Inputs <- MCInputs
  ObservationLists <- MCObservationLists
INVARIANTS TypeOK AbstentionNeverCleared EvidenceSurvives SymptomAccountedFor
PROPERTY ImplementsPromise
CHECK_DEADLOCK FALSE
