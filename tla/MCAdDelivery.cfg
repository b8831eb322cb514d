\* Two chains, DOMContentLoaded and load, each with its two attempts.
\* A page on which all chains have ended rests.
SPECIFICATION FairSpec
CONSTANTS
  Chains = {onReady, onLoad}
  Attempts <- MCAttempts
CHECK_DEADLOCK FALSE
INVARIANTS
  TypeOK
  ReportedWasDisplayed
  ViewCountedTwice
  AdNamesWallet
PROPERTIES
  AdStays
  ChainEndsOnce
  SomethingIsShown
