SPECIFICATION FairSpec
CONSTANTS
  Documents = {d1}
  Uploads = {k1, k2}
  Sessions = {s1, s2}
  Apps = {old, new}
  FirstApp = old
  MaxRedeploys = 1
  MaxLate = 1
INVARIANTS DocumentFileKept FilesAccounted
PROPERTIES AnswerIsFinal PendingResolved
CHECK_DEADLOCK FALSE
