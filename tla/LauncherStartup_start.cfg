SPECIFICATION Spec
CONSTANTS
  l1 = l1
  l2 = l2
  p1 = p1
  p2 = p2
  a = a
  Launchers <- MCLaunchers
  Processes <- MCProcesses
  Apps <- MCApps
  AppOf <- MCAppOf
  MaxKills = 1
INVARIANTS TypeOK OneHolder RunIsCounted RunsOnWholeFiles
PROPERTIES FailsOnlyForCause Settles
