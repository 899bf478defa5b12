SPECIFICATION FairSpec
CONSTANTS
  PriceConstant = 3
  Owners = {"A", "B"}
  Orders <- MCOrders
  Spendable = {4, 20}
  MaxActiveOrders = 2
  Unreliable <- MCUnreliable
  MaxEvents = 4
  MaxRestarts = 1
INVARIANTS
  ReservedExact
  ActiveIsResting
  FinalIsTrue
PROPERTIES
  ImplementsLifecycle
  Answered
CHECK_DEADLOCK FALSE
