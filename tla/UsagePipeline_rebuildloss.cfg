SPECIFICATION Spec
CONSTANTS
  alice = alice
  mallory = mallory
  r1 = r1
  r2 = r2
  m1 = m1
  m2 = m2
  t1 = t1
  l1 = l1
  u1 = u1
  Engineer = {alice, mallory}
  Known = {alice}
  Replica = {r1, r2}
  Event = {m1, m2}
  EngineerOf <- MCEngineerOf
  SourceOf <- MCSourceOf
  Carries <- MCCarries
  Occurs <- MCOccurs
  Poison = Poison
  MaxFaults = 0
INVARIANTS RebuildKeepsRecorded
