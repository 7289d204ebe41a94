SPECIFICATION FairSpec
CONSTANTS
  alice = alice
  bob = bob
  g1 = g1
  g2 = g2
  a1 = a1
  w1 = w1
  h1 = h1
  Email = {alice, bob}
  Login = {g1, g2}
  Budget = {0, 25}
  DefaultBudget = 25
  Seed <- MCSeed
  Api = {a1}
  Worker = {w1}
  Handler = {h1}
  MaxWrites = 2
  MaxFaults = 1
INVARIANTS TypeOK ReadYourWrites
PROPERTIES ServesPastState RegistryCatchesUp
