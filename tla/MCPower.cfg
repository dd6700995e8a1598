CONSTANTS
  Ids = {greeter, alice1, bob1}
  UserIds = {alice1, bob1}
  None = None
  MaxSignals = 2
SPECIFICATION FairSpec
INVARIANT UnconfirmedOnlyInRace
PROPERTY UserIsNoticed
