\* Two clicks on a campaign whose budget pays for one, nothing fails.
SPECIFICATION Spec
CONSTANTS
  Clicks = {c1, c2}
  k1 = k1
  k2 = k2
  good = good
  bad = bad
  Campaigns = {k1, k2}
  Sites = {good}
  PayableSites = {good}
  Wallets = {good}
  PayableWallets = {good}
  Cost <- MCCost
  Budget <- MCBudget
  NoRequest = NoRequest
  Faults = {}
CHECK_DEADLOCK FALSE
INVARIANT
  BudgetRespected
