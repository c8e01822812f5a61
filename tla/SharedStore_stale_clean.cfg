SPECIFICATION Spec
CONSTANTS
  s = s
  m = m
  a = a
  b = b
  p = p
  q = q
  Servers <- MCServers
  Managers <- MCManagers
  Apps <- MCApps
  Packages <- MCPackages
  Deps <- MCDeps
  MaxFaults = 0
  MaxSharedFaults = 0
INVARIANT ReadyHasPackages
