SPECIFICATION Spec
CONSTANTS
  a1 = a1
  a2 = a2
  b1 = b1
  ada = ada
  bob = bob
  eve = eve
  h1 = h1
  h2 = h2
  Accounts <- ThreeAccounts
  HostOf <- HostOfThree
  Names <- ThreeNames
  Handlers <- TwoHandlers
  MaxRegistered = 1
  MaxGestures = 4
SYMMETRY Symmetry
VIEW View
CHECK_DEADLOCK FALSE
INVARIANTS OnePersonEach OrgKeepsAdmin OneAccountPerHost
