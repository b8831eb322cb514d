\* Two views of one inherited wallet on one evening; the process never stops.
SPECIFICATION Spec
CONSTANTS
  inherited = inherited
  fresh = fresh
  Wallets = {inherited}
  Registered = {inherited}
  Fingerprints = {}
  NoWallet = NoWallet
  Sites = {s1}
  DayLength <- MCDayLength
  Cooldown <- MCCooldown
  Start <- MCStart
  End <- MCEnd
  MaxVisits = 2
  MaxCrashes = 0
CHECK_DEADLOCK FALSE
INVARIANT
  SixHourCooldown
