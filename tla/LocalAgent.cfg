CONSTANTS
  Calls = {c1, c2, c3}
  Sends = {"send", "other_send"}
  Amounts = {1}
  PerPayment = 1
  PerDay = 2
  Day = 2
  Workers = 2
  MaxTime = 2
SPECIFICATION Spec
INVARIANTS
  TypeOK
  RecordedWithinCap
PROPERTIES
  Answered
