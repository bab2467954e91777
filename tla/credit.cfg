SPECIFICATION Spec
CONSTANTS
  r1 = r1
  r2 = r2
  cny = cny
  usd = usd
  Receivables = {r1}
  Receipts = {c1}
  Allocations = {a1, a2}
  Differences = {}
  Keys = {k1, k2}
  Users = {u1, u2}
  Accounts = {cny}
  AccountOf <- AllCny
  CreditEligible = {r1}
  Amounts = {1}
  AdjustAmounts = {1, 2}
  Handlers = {h1}
  Workers = {w1}
  BatchSize = 2
  MaxCreditEvents = 3
  MaxDisruptions = 1
SYMMETRY CreditSymmetry
INVARIANTS CompensatedOnce DeliveredWasReceived
PROPERTIES CreditMatchesSettlement ImplementsQueue
CHECK_DEADLOCK FALSE
