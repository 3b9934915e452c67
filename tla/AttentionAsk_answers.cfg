SPECIFICATION Spec
CONSTANTS
  ann = ann
  bo = bo
  cy = cy
  left = left
  right = right
  People <- MCPeople
  Ranked <- MCRanked
  Tabs <- MCTabs
  MaxRecipients = 3
  Needs = {1, 2}
  ChatFails = TRUE
  StoreFails = TRUE
  MaxClicks = 4
SYMMETRY TabSymmetry
INVARIANTS
  SatisfiedIsClosed
  AskedOnce
  NoButtonsWhenOver
  KeepsAsking
PROPERTY AnswersStand
CHECK_DEADLOCK FALSE
