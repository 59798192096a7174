CONSTANTS
  Handles = {h1, h2, h3}
  Trusted = 2
SPECIFICATION FairSpec
INVARIANTS SlotAccounted FailedOpenHoldsNothing
PROPERTIES PoisonIsFinal OpenReturns
