SPECIFICATION Spec
CONSTANTS
  Accounts = {alice}
  Owners = {o1, treasury}
  Treasury = treasury
  Rhos = {r1, r2}
  NoFunder = NoFunder
  Capacity = 7
  RootRingSize = 3
  MaxAmount = 5
  MinRefundWindow = 1
  MaxRefundWindow = 1
  FeePercentDivisor = 2
  FeeFloor = 1
  UnitScale = 2
  InitialBalance = 16
  DepositAmounts = {5}
  SentAmounts = {0, 1, 3}
  MaxTime = 1
SYMMETRY RhoSymmetry
INVARIANTS
  TypeOK
  Solvent
  NullifiersNameNotes
  RingHoldsRecentRoots
  IndexMatchesTree
  NotesStayReachable
PROPERTIES
  ImplementsLedger
  EveryPaymentPaysFee
CHECK_DEADLOCK FALSE
