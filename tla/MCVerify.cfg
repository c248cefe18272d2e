SPECIFICATION FairSpec
CONSTANTS
  e1 = e1
  e2 = e2
  w1 = w1
  Nowhere = Nowhere
  VPCs <- MCVPCs
  RegionOf <- MCRegionOf
  Requests <- MCRequests
  Snapshots <- MCSnapshots
INVARIANTS VerifyTypeOK ReportIsEarned BilledAndGivenUp
PROPERTY Ends
CHECK_DEADLOCK FALSE
