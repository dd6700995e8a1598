CONSTANTS
  alice = alice
  bob = bob
  hypr = hypr
  sway = sway
  None = None
  Names <- MCNames
  Accounts <- MCNames
  Sessions <- MCSessions
  ManualMode = FALSE
  ConfigValid = TRUE
SPECIFICATION FairListSpec
INVARIANTS PromptShowsChosen SecretReachesItsAccount RefusalIsRetried
PROPERTIES StartIsFinal SavedIsScheduled CancellationEnds StartResolves
