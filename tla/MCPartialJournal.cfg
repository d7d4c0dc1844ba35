SPECIFICATION Spec
CONSTANTS
  MaxTurns = 2
  MaxParts = 2
  MaxRetries = 1
  Background = {b1}
  MaxMishaps = 1
  Plays <- TwoTurns
PROPERTIES
  ImplementsDurableReply
  SettledStaysSettled
CHECK_DEADLOCK FALSE
