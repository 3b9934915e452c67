SPECIFICATION FairSpec
CONSTANTS
  r1 = r1
  r2 = r2
  p1 = p1
  p2 = p2
  Runs <- OneRun
  Pollers <- TwoPollers
  Apart = FALSE
  StampsBack = FALSE
  MaxPasses = 1
  MaxFailures = 1
CHECK_DEADLOCK FALSE
INVARIANTS TypeOK NewsPlanned AnnouncedOnce
PROPERTIES CurationKept ParkAnnounced SettledForGood
