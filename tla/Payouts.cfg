CONSTANTS
  Notes = {n1, n2}
  Amount = 1
  Asked = {0, 1, 2}
  Float = 2
  MaxFaults = 2
SPECIFICATION Spec
INVARIANTS
  TypeOK
  VaultCoversSupply
  PaidByOneRoute
PROPERTIES
  PayoutClosed
