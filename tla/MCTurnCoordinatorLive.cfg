SPECIFICATION FairSpec
CONSTANTS
  MaxRetained = 1
  MaxTurns = 2
  MaxOps = 1
  MaxReservations = 0
  MaxTokens = 0
  MaxDepth = 1
  Waiters = {}
  Readers = {}
  EngineRunning = FALSE
  Calls = {"direct", "summary", "thinking", "send-immediately", "shutdown", "startup-abort", "provider-tool", "preempt"}
INVARIANTS
  AbortedStaysDead
PROPERTIES
  SettlementsResolve
  DisposalCloses
CHECK_DEADLOCK FALSE
