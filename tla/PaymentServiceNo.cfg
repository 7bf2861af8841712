CONSTANTS
  Payments = {p1}
  Demos = {}
  Amount = 3
  Fee = 1
  Float = 3
  Chunks = 2
  HasCollector = TRUE
  DiskMayFill = FALSE
  OpenMayFail = FALSE
SPECIFICATION Spec
INVARIANT NoMeansRetrySafe
