SPECIFICATION FairSpec
CONSTANTS
  desktop = desktop
  server = server
  terminal = terminal
  u1 = u1
  u2 = u2
  m1 = m1
  m2 = m2
  m3 = m3
  Backends = {desktop, server}
  Workspaces = {1, 2}
  Kinds = {terminal}
  Users = {u1, u2}
  Opens = {u2}
  Mutators = {m1, m2, m3}
  BackendOf <- MCBackendOf
  PlaceOf <- MCPlaceOf
  KindOf <- MCKindOf
  Claims <- MCClaims
  Ignored <- MCIgnored
  NoOne = NoOne
  MaxCrashes = 1
  MaxFaults = 1
INVARIANTS
  StructuralExclusion
PROPERTIES
  NoAdmissionBehindScan
  NoLaunchUnderMutation
  Decided
