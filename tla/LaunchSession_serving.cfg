SPECIFICATION FairSpec
CONSTANTS
  a = a
  b = b
  p = p
  q = q
  t = t
  Launchers = {l1, l2}
  Apps <- MCApps
  Packages <- MCPackages
  Direct <- MCDirect
  Requires <- MCRequires
  Pythons = {7, 8}
  PythonOf <- MCPythonOf
  AllowCompatible = {b}
  NoPython = NoPython
  MaxCrashes = 1
INVARIANTS TypeOK RunsComplete InstallingIsAttended
PROPERTIES ReadyIsEarned AnsweredUnlessFinished
