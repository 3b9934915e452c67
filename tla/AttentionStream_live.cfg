SPECIFICATION FairSpec
CONSTANTS
  pay = pay
  left = left
  right = right
  first = first
  second = second
  Asks <- MCAsks
  Writers <- MCWriters
  Fetches <- MCFetches
  Stamps = {1, 2}
  MaxWrites = 2
  MaxFaults = 2
INVARIANTS
  SettledShowsStore
PROPERTIES
  ClosedStaysOff
  PageConverges
CHECK_DEADLOCK FALSE
