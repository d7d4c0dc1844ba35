SPECIFICATION FairSpec
CONSTANTS
  a1 = a1
  a2 = a2
  a3 = a3
  p1 = p1
  p2 = p2
  Actors = {a1, a2}
  Procs = {p1, p2}
  ProcOf <- OneEach
  MaxDepth = 3
  Nonces = {1, 2, 3}
  NoToken = NoToken
  Departed = Departed
  Left = {0, 1}
  Malformed = Malformed
  OlderBuild = TRUE
  MaxCrashes = 1
  MaxFaults = 0
PROPERTIES
  ReclaimersKeepEvidence
  OrphanCleared
