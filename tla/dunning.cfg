SPECIFICATION FairSpec
CONSTANTS
  Policies = {k1}
  FromDays <- AllFromOne
  ToDays <- AllToTwo
  Rank <- OnlyRank
  Rule <- OneCollector
  Users = {u1, u2}
  Leavers = {u1}
  LeadDays = 0
  EscalationDays = 2
  Starts <- BeforeAndAfter
  LastAging = 2
  Loops = {w1, w2}
  Reminders = {w1}
  MaxActions = 2
  MaxEvents = 2
INVARIANT OneActiveCase
PROPERTIES RemindedOncePerInterval ResultIsFinal SettledIsClosed FormerOwnerReleased
CHECK_DEADLOCK FALSE
