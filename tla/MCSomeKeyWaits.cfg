\* A visitor whose wallet this version meets first: two views and two clicks on one site.
SPECIFICATION Spec
CONSTANTS
  inherited = inherited
  fresh = fresh
  Wallets = {fresh}
  Registered = {}
  Fingerprints = {fp}
  NoWallet = NoWallet
  Sites = {s1}
  DayLength <- MCDayLength
  Cooldown <- MCCooldown
  Start <- MCStart
  End <- MCEnd
  MaxVisits = 4
  MaxCrashes = 0
CHECK_DEADLOCK FALSE
INVARIANT SomeKeyWaits
