SPECIFICATION FairSpec
CONSTANTS
  Receivables = {r1}
  Handlers = {h1}
  Workers = {w1}
  BatchSize = 2
  MaxCreditEvents = 2
  MaxDisruptions = 1
  Planned <- OneEach
  ReceiptFacts = {c1, c2}
  AllocationFacts = {a1}
  Manifest = {c1, a1}
  Amounts = {1, 2}
  ApprovedOpen = 0
  ApprovedReceipts = 1
  Mode = "CONTINUE_LIVE"
  Owner = "u1"
  OwnerEvents <- HandOver
  Exports = {x1}
  MaxReconciliations = 2
INVARIANTS HeldCreditKept ExportIsCurrent
PROPERTIES ReleasedAsApproved HeldCreditSettles
CHECK_DEADLOCK FALSE
