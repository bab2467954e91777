SPECIFICATION Spec
CONSTANTS
  q1 = q1
  Requests = {q1, q2}
  Receivables = {v1}
  Users = {u1, u2}
  Applicants = {u1, u2}
  Commands <- MCCommands
  Workers = {w1}
  Amounts = {2}
  AdjustAmounts = {1, 2}
  Specials = {TRUE}
  Original <- TwoEach
  ChannelsFor <- TaxThenManual
  MaxAttempts = 2
  MaxTries = 1
  LostResponses = TRUE
  Results <- AnyResult
  AdminRetry = FALSE
SYMMETRY InvoiceSymmetry
INVARIANTS QuotaRespected InvoiceMatchesRequest SingleLiveAttempt
PROPERTY NoReissueAfterSuccess
CHECK_DEADLOCK FALSE
