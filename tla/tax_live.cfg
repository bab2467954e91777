SPECIFICATION RedFairSpec
CONSTANTS
  Requests = {q1}
  Receivables = {v1}
  Users = {u1, u2}
  Applicants = {u1}
  Flushes = {f1}
  Commands <- MCCommands
  Workers = {w1}
  Amounts = {1}
  AdjustAmounts = {}
  Specials = {FALSE}
  Original <- TwoEach
  ChannelsFor <- TaxOnly
  MaxAttempts = 1
  MaxTries = 2
  LostResponses = TRUE
  Results <- SettlingResult
  AdminRetry = FALSE
PROPERTIES AttemptConverges FlushConverges
CHECK_DEADLOCK FALSE
