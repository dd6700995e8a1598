CONSTANTS
  alice = alice
  mallory = mallory
  hypr = hypr
  sway = sway
  None = None
  Names <- MCNames
  Accounts <- MCAccounts
  Sessions <- MCSessions
  ManualMode = FALSE
SPECIFICATION ControllerSpec
INVARIANTS TypeOK ConversationOnOpenSocket WaitIsBounded CancellationLeavesNothing OnlyCancelOvertakes StartOnlyWhenReady
