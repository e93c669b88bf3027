CONSTANTS
  Apps = {a1, a2}
  Openers = {a1}
  Slots = {1, 2}
  Nobody = Nobody
  MaxSn = 3
  MaxEvents = 2
SPECIFICATION FairSpec
CHECK_DEADLOCK FALSE
INVARIANTS SessionsInv HandlesOwnSession
PROPERTIES CloseReturns EventsServed
