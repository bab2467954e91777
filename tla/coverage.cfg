SPECIFICATION Spec
CONSTANTS
  EventPlans = {p1, p2}
  ManualPlans = {m1}
  Sessions = {s1, s2}
  Amounts = {1, 5, 9, 10}
  ContractAmount = 20
  GapLimit = 5
  DropLimit = 50
SYMMETRY CoverageSymmetry
PROPERTIES OnlyRacesExceed DeviationAudited
CHECK_DEADLOCK FALSE
