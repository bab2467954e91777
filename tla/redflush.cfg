SPECIFICATION RedSpec
CONSTANTS
  Requests = {q1}
  Receivables = {v1}
  Users = {u1, u2}
  Applicants = {u1, u2}
  Flushes = {f1, f2}
  Commands <- MCCommands
  Workers = {w1}
  Amounts = {1}
  AdjustAmounts = {}
  Specials = {TRUE, FALSE}
  Original <- TwoEach
  ChannelsFor <- ManualOnly
  MaxAttempts = 1
  MaxTries = 1
  LostResponses = TRUE
  Results <- AnyResult
  AdminRetry = TRUE
INVARIANTS QuotaAfterFlush FlushedOnce
SYMMETRY FlushSymmetry
CHECK_DEADLOCK FALSE
