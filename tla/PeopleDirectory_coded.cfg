SPECIFICATION Spec
CONSTANTS
  a1 = a1
  a2 = a2
  b1 = b1
  ada = ada
  bob = bob
  eve = eve
  h1 = h1
  h2 = h2
  Accounts <- ThreeAccounts
  HostOf <- HostOfThree
  Names <- TwoNames
  Handlers <- TwoHandlers
  MaxRegistered = 1
  MaxGestures = 3
SYMMETRY Symmetry
CHECK_DEADLOCK FALSE
INVARIANT OrgHasAdmin
