SPECIFICATION Spec
CONSTANTS
  s = s
  m = m
  a = a
  b = b
  p = p
  q = q
  Servers <- MCServers
  Managers <- MCManagers
  Apps <- MCApps
  Packages <- MCPackages
  Deps <- MCDeps
  MaxFaults = 3
  MaxSharedFaults = 0
INVARIANTS TypeOK Durable FileSound ReadyHasPackagesAlone PartialIsAttended
PROPERTY DeletesOnlyUnreferenced
