SPECIFICATION Spec
CONSTANTS
  a1 = a1
  a2 = a2
  a3 = a3
  p1 = p1
  p2 = p2
  Actors = {a1, a2, a3}
  Procs = {p1, p2}
  ProcOf <- TwoProcesses
  MaxDepth = 1
  Nonces = {1, 2, 3}
  NoToken = NoToken
  Departed = Departed
  Left = {0}
  Malformed = Malformed
  OlderBuild = FALSE
  MaxCrashes = 1
  MaxFaults = 1
INVARIANTS
  OwnerHasRecord
PROPERTIES
  ImplementsCrashLock

SYMMETRY Peers
