SPECIFICATION Spec
CONSTANTS
  d1 = d1
  d2 = d2
  i1 = i1
  i2 = i2
  Drivers <- TwoDrivers
  Intakes <- OneIntake
  Hosts <- GitHub
  RequireAiReview = TRUE
  MaxAttempts = 2
  PromptSteps = FALSE
  IntakesAlone = FALSE
  Failures = TRUE
  AdvanceThrows = TRUE
  MaxHeads = 2
  MaxRequests = 1
  MaxRuns = 1
  MaxApprovals = 2
  MaxCrashes = 0
SYMMETRY ActorSymmetry
VIEW View
CHECK_DEADLOCK FALSE
INVARIANTS ApprovedAsAssessed VerdictNotStale
