CONSTANTS
  MaxRetained = 2
  MaxTurns = 4
  Sends = {1, 3}
  Edits = {2}
  Mutations = {}
  Casts <- Liveness
SPECIFICATION FairSpec
PROPERTIES QueueDrains EditsProceed
CHECK_DEADLOCK FALSE
