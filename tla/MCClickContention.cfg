\* Three clicks at once on one campaign and one site. Nothing fails but the race for the
\* sequence number of the account, and the process, which may be stopped.
SPECIFICATION FairSpec
CONSTANTS
  Clicks = {c1, c2, c3}
  k1 = k1
  k2 = k2
  good = good
  bad = bad
  Campaigns = {k1}
  Sites = {good}
  PayableSites = {good}
  Wallets = {good}
  PayableWallets = {good}
  Cost <- MCCost
  Budget <- MCBudget
  NoRequest = NoRequest
  Faults = {"crash"}
CHECK_DEADLOCK FALSE
INVARIANTS
  ConflictHasWinner
  NoSelfConflict
  SomePublisherPaid
  FaultsExplain
PROPERTIES
  EveryClickSettles
