SPECIFICATION Spec
CONSTANTS
  alice = alice
  w1 = w1
  w2 = w2
  Engineer = {alice}
  Worker = {w1, w2}
  Tiers <- MCTiers
  ManagerTiers <- MCManagerTiers
  MCBudgets = {"daily"}
  Budget <- MCBudget
  Spends = {0, 8, 20}
  SlackID = {alice}
  ManagerID = {alice}
  MCDay = 2
  MaxTime = 3
  EndOf <- MCEndOf
  PromptClaims = TRUE
  MaxFaults = 2
SYMMETRY WorkerSymmetry
INVARIANTS TypeOK ClaimedOnce NextPeriodFresh LowestTierFirst NoSilentSkip ManagerNotified
