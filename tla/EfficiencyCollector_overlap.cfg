SPECIFICATION Spec
CONSTANTS
  alice = alice
  bob = bob
  p1 = p1
  p2 = p2
  c1 = c1
  c2 = c2
  Collector = {c1, c2}
  Login = {alice, bob}
  PR = {p1, p2}
  AuthorOf <- MCAuthorOf
  TitleMatch <- MCTitleMatch
  Overlap <- MCOverlap
  Scanned = {p1, p2}
  MaxFaults = 1
INVARIANTS TypeOK FlagIsJustified LeaderboardIsEarned
PROPERTIES RevertedSticks LeaderboardConverges
