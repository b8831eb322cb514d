\* Three visits between an evening and the noon after it, with one death of the server.
SPECIFICATION FairSpec
CONSTANTS
  inherited = inherited
  fresh = fresh
  Wallets = {inherited, fresh}
  Registered = {inherited}
  Fingerprints = {fp}
  NoWallet = NoWallet
  Sites = {s1, s2}
  DayLength <- MCDayLength
  Cooldown <- MCCooldown
  Start <- MCStart
  End <- MCEnd
  MaxVisits = 3
  MaxCrashes = 1
CHECK_DEADLOCK FALSE
INVARIANTS
  PendingIsDueOrLost
  NightCooldown
  WaitFollowsReward
PROPERTIES
  ImpressionLifecycle
  EveryImpressionSettles
