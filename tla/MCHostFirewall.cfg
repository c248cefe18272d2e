SPECIFICATION ZoneSpec
CONSTANTS
  MaxRules = 2
  Zones <- MCZones
INVARIANTS ZoneTypeOK ZoneVerdictIsTrue
CHECK_DEADLOCK FALSE
