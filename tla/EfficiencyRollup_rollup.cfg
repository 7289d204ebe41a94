SPECIFICATION Spec
CONSTANTS
  a = a
  b = b
  c = c
  p1 = p1
  p2 = p2
  Pod = {p1, p2}
  Engineer = {a, b, c}
  Orders <- MCOrders
  Facts <- MCFacts
  InitFacts <- MCInitFacts
  Scale = 6
  MaxDay = 1
  MaxChanges = 1
  MaxFaults = 1
INVARIANTS TypeOK CohortRanks QuietRowsAgree
