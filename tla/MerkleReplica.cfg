SPECIFICATION Spec
CONSTANTS
  Depth = 3
  RootRingSize = 4
  LeafValues = {a, b}
  MaxServed = 3
  NoProof = NoProof
INVARIANTS
  TypeOK
  RingHoldsReferenceRoots
  ProofGoodWhileRecent
  PathProvesPosition
CHECK_DEADLOCK FALSE
