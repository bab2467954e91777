SPECIFICATION Spec
CONSTANTS
  Installments = {1, 2}
  Amounts = {1, 2}
  Dues = {1}
  Events <- MCEvents
  Deliveries = {d1, d2}
CONSTRAINT BeforeLastVersion
SYMMETRY DeliverySymmetry
INVARIANT OneBaseline
PROPERTIES NeverRegresses RevisionAccounted FactsKept
CHECK_DEADLOCK FALSE
