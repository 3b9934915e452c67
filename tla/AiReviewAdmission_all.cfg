SPECIFICATION FairSpec
CONSTANTS
  r1 = r1
  r2 = r2
  r3 = r3
  r4 = r4
  Requests <- ThreeRequests
  HourlyLimit = 2
  FilingTimeout = 1
  Hour = 2
  PromptFiling = TRUE
INVARIANTS TypeOK OneInFlight FiledWithinLimit
PROPERTIES FiledNotWrittenOff NeverBlockedForGood OrphansWrittenOff
