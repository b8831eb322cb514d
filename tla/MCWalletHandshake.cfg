\* Two calls of any kind meet at each of their requests, for two accounts the user may choose.
\* A run ends when both calls have returned and no timer is set.
SPECIFICATION FairSpec
CONSTANTS
  Calls = {c1, c2}
  Accounts = {a1, a2}
  NoAccount = NoAccount
  MaxPolls <- MCMaxPolls
  MaxTimers <- MCMaxTimers
CHECK_DEADLOCK FALSE
INVARIANTS
  TypeOK
  OneEventHandshake
  WalletMeansGranted
  ListenersAwaitAnswer
  LostGrantNeedsRefusal
  AccountsDivergeOutside
PROPERTIES
  ImplementsPageWallet
  FlagReleased
  EveryCallReturns
