SPECIFICATION Spec
CONSTANTS
  MaxRetained = 1
  MaxTurns = 3
  MaxOps = 0
  MaxReservations = 1
  MaxTokens = 1
  MaxDepth = 3
  Waiters = {w1, w2}
  Readers = {}
  EngineRunning = FALSE
  Calls = {"direct", "idle", "preempt", "abandon", "shutdown"}
SYMMETRY Symmetry
INVARIANTS
  WaitersNotStranded
PROPERTIES
  CompactionWaitersHeld
CHECK_DEADLOCK FALSE
