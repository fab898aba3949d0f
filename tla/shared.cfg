SPECIFICATION Spec
CONSTANTS
  p1 = p1
  p2 = p2
  p3 = p3
  g1 = g1
  g2 = g2
  Posts = {p1, p2, p3}
  Gets = {g1, g2}
  MaxFaults = 2
SYMMETRY RequestSymmetry
INVARIANTS TypeOK AcknowledgedIsDurable OpenTransactionIsOwned ListedRowsStay
PROPERTY GhostsAreExplained
