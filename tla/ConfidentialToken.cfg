CONSTANTS
  Owners = {alice, bob}
  Funders = {alice}
  Supply = 2
  FeeFloor = 1
  Openings = {1}
  Nonces = {0}
  MaxProofs = 2
  MaxNotes = 5
SPECIFICATION Spec
INVARIANTS
  TypeOK
  Backed
PROPERTIES
  ImplementsPlainToken
  OnlyOwnerMovesAvailable
