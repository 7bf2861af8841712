CONSTANTS
  Mints = {usdc, usdg}
  Wallets = {alice}
  Treasury = treasury
  Amounts = {3}
  FeeFloor = 1
  Capacity = 5
  MinWindow = 1
  MaxWindow = 1
  MaxTime = 1
  MaxNotes = 5
  Pieces = 2
  FeePieces = 0
SYMMETRY MintSymmetry
SPECIFICATION Spec
INVARIANTS
  TypeOK
  LeafListComplete
  MintBacked
  EnvelopeWhole
CHECK_DEADLOCK FALSE
