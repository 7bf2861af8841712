CONSTANTS
  Payments = {p1, p2}
  Demos = {d1}
  Amount = 3
  Fee = 1
  Float = 3
  Chunks = 2
  HasCollector = TRUE
  DiskMayFill = TRUE
  OpenMayFail = FALSE
SYMMETRY PaymentSymmetry
SPECIFICATION Spec
INVARIANTS
  TypeOK
  RetryOnlyBeforeMoney
  OneWrapPerPayment
  MovedIsPaid
  Backed
  EnvelopeKept
  DoneIsDelivered
