CONSTANTS
  Calls = {c1, c2, c3}
  Sends = {"send", "other_send"}
  Amounts = {1, 2}
  PerPayment = 2
  PerDay = 3
  Day = 2
  Workers = 2
  MaxTime = 2
SPECIFICATION Spec
INVARIANTS
  BudgetHolds
