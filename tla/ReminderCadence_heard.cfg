SPECIFICATION CadenceSpec
CONSTANTS
  ann = ann
  bo = bo
  Reviewers <- MCReviewers
  UnassignedAfter = 2
  PendingAfter = 2
  PendingRepeat = 2
  EscalateAfterDue = 2
  ParkedAfter = 2
  MaxPending = 2
  Deadlines <- MCDeadlines
  Pauses = {1, 3}
  MaxTime = 6
  MaxChanges = 4
SYMMETRY ReviewerSymmetry
CHECK_DEADLOCK FALSE
INVARIANTS NoRungSilenced AudienceFits
