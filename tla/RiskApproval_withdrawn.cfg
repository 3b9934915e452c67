SPECIFICATION FairSpec
CONSTANTS
  d1 = d1
  d2 = d2
  i1 = i1
  i2 = i2
  Drivers <- TwoDrivers
  Intakes <- OneIntake
  Hosts <- BothHosts
  RequireAiReview = FALSE
  MaxAttempts = 2
  PromptSteps = TRUE
  IntakesAlone = TRUE
  Failures = TRUE
  AdvanceThrows = TRUE
  MaxHeads = 2
  MaxRequests = 0
  MaxRuns = 0
  MaxApprovals = 2
  MaxCrashes = 1
CHECK_DEADLOCK FALSE
INVARIANTS TypeOK OldHeadWithdrawn RecordedApprovalStands
PROPERTY Settles
