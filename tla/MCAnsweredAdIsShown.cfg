\* One chain is enough: the answer comes before the wallet.
SPECIFICATION Spec
CONSTANTS
  Chains = {onReady}
  Attempts <- MCAttempts
CHECK_DEADLOCK FALSE
INVARIANT
  AnsweredAdIsShown
