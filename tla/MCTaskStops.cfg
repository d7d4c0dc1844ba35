SPECIFICATION MCSpec
CONSTANTS
  c1 = c1
  c2 = c2
  f1 = f1
  s1 = s1
  s2 = s2
  Stops = {c1, c2}
  Failures = {f1}
  Sends = {s1, s2}
  MaxAttempts = 2
  MaxTurns = 2
  MaxLaunches = 2
INVARIANTS
  LatchIsCounted
  CapturesAreComplete
  ReceiptsAreTrue
  OneUndecidedStream
  NoLaunchIsStranded
PROPERTIES
  StopsEndQuiet
  StopsEnd
CHECK_DEADLOCK FALSE
