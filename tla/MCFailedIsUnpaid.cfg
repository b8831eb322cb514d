\* The answer of submitTransaction may be lost, nothing else fails.
SPECIFICATION Spec
CONSTANTS
  Clicks = {c1, c2}
  k1 = k1
  k2 = k2
  good = good
  bad = bad
  Campaigns = {k1, k2}
  Sites = {good}
  PayableSites = {good}
  Wallets = {good}
  PayableWallets = {good}
  Cost <- MCCost
  Budget <- MCBudget
  NoRequest = NoRequest
  Faults = {"timeout"}
CHECK_DEADLOCK FALSE
INVARIANT
  FailedIsUnpaid
