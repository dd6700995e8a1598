CONSTANTS
  alice = alice
  bob = bob
  hypr = hypr
  sway = sway
  goneUser = goneUser
  goneSession = goneSession
  None = None
  Names <- MCNames
  Accounts <- MCNames
  Sessions <- MCSessions
  ManualMode = TRUE
  ConfigValid = TRUE
  DefaultSession = sway
  LeftBehind <- MCLeftBehind
SPECIFICATION BootsSpec
INVARIANT PromptShowsChosen
PROPERTIES FileIsWholeLogin LastLoginOffered
