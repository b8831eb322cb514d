\* Any three of a click, an impression or event and two orders, under every fault.
SPECIFICATION FairSpec
CONSTANTS
  k1 = k1
  Clicks = {c1}
  Views = {v1}
  Admins = {a1, a2}
  Campaigns = {k1}
  Publishers = {p1}
  Price = 1
  Deposit <- MCDeposit
  NoOrder = NoOrder
  Unknown = Unknown
  Faults = {"db", "lost", "kill"}
  Allowed = {p1}
  MaxRequests = 3
  MaxRestarts = 1
CHECK_DEADLOCK FALSE
INVARIANTS
  BooksWithinDeposit
  MishapsExplain
  OperatorKnows
PROPERTIES
  KeepsBooks
  EveryRequestSettles
