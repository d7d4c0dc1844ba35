CONSTANTS
  MaxRetained = 2
  MaxTurns = 3
  Sends = {1, 2}
  Edits = {}
  Mutations = {}
  Casts <- SoftOnly
SPECIFICATION Spec
PROPERTY StalePolicyIsHarmless
CHECK_DEADLOCK FALSE
