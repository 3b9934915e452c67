SPECIFICATION Spec
CONSTANTS
  payments = payments
  billing = billing
  ann = ann
  bo = bo
  left = left
  right = right
  Reviews <- MCReviews
  Reviewers <- MCReviewers
  Handlers <- MCHandlers
  MaxGestures = 4
  MaxHostFailures = 1
SYMMETRY BoardSymmetry
CHECK_DEADLOCK FALSE
INVARIANTS  PromiseKeepsRequest NoStrayRequest
