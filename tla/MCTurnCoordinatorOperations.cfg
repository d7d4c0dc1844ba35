SPECIFICATION Spec
CONSTANTS
  MaxRetained = 1
  MaxTurns = 3
  MaxOps = 2
  MaxReservations = 0
  MaxTokens = 0
  MaxDepth = 1
  Waiters = {}
  Readers = {x1}
  EngineRunning = TRUE
  Calls = {"direct", "preempt", "terminal", "send-immediately"}
INVARIANTS
  ControllerFollowsClaim
  SettlementHasOwner
  DecisionHasResolver
  StreamingIsReal
PROPERTIES
  PreparationOwned
CHECK_DEADLOCK FALSE
