CONSTANTS
  Machines <- MCMachines
  Collation <- MCCollation
  CodeOrder <- MCCodeOrder
  MaxAttempts = 4
SPECIFICATION DemoSpec
INVARIANTS FirstFileDecides ArgumentsSurvive OnlyEligibleAccounts DemoPromptShowsChosen TextIsForItsAccount
PROPERTIES OwnTimerCompletes CodeCompletes FingerprintResolves
CHECK_DEADLOCK FALSE
