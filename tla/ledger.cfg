SPECIFICATION Spec
CONSTANTS
  r1 = r1
  r2 = r2
  cny = cny
  usd = usd
  Receivables = {r1, r2}
  Receipts = {c1, c2}
  Allocations = {a1, a2}
  Differences = {d1}
  Keys = {k1, k2, k3}
  Users = {u1, u2}
  Accounts = {cny, usd}
  AccountOf <- PerReceivable
  CreditEligible = {}
  Amounts = {1, 2}
  AdjustAmounts = {1, 2, 3}
  Handlers = {h1}
  Workers = {}
  BatchSize = 1
  MaxCreditEvents = 0
  MaxDisruptions = 0
SYMMETRY LedgerSymmetry
INVARIANTS TypeOK BalancesAgree MoneyConserved
PROPERTY FactsImmutable
CHECK_DEADLOCK FALSE
