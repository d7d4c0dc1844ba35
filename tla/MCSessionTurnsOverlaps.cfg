CONSTANTS
  MaxRetained = 2
  MaxTurns = 4
  Sends = {1, 2, 3}
  Edits = {4}
  Mutations = {5}
  Casts <- Overlaps
SPECIFICATION Spec
INVARIANTS
  TurnHasOwner
  HistoryHasOneWriter
  StreamIsCurrent
  SendsInOrder
PROPERTY StalePolicyMovesNoOther
CHECK_DEADLOCK FALSE
