CONSTANTS
  Mints = {usdg}
  Wallets = {alice}
  Treasury = treasury
  Amounts = {3}
  FeeFloor = 1
  Capacity = 4
  MinWindow = 1
  MaxWindow = 1
  MaxTime = 1
  MaxNotes = 4
  Pieces = 2
  FeePieces = 1
SPECIFICATION Spec
INVARIANT FunderCanRecover
CHECK_DEADLOCK FALSE
