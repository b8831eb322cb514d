\* Two clicks on two campaigns, every kind of fault. An invalid address only makes
\* certain what "load" already allows, so one valid site and one valid wallet are enough.
SPECIFICATION Spec
CONSTANTS
  Clicks = {c1, c2}
  k1 = k1
  k2 = k2
  good = good
  bad = bad
  Campaigns = {k1, k2}
  Sites = {good}
  PayableSites = {good}
  Wallets = {good}
  PayableWallets = {good}
  Cost <- MCCost
  Budget <- MCBudget
  NoRequest = NoRequest
  Faults = {"load", "timeout", "opfail", "expire", "db", "crash", "kill"}
SYMMETRY ClickSymmetry
CHECK_DEADLOCK FALSE
INVARIANTS
  CompletedMeansPaid
  PaymentHasRow
  SpentMatchesCharged
  PipelineInv
PROPERTIES
  RowLifecycle
  KeepsBooks
