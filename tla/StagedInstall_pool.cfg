SPECIFICATION Spec
CONSTANTS
  r1 = r1
  r2 = r2
  server = server
  cli = cli
  wheel = wheel
  bare = bare
  python = python
  Requests <- MCRequests
  Processes <- MCProcesses
  Wheels <- MCWheels
  Unhashed <- MCUnhashed
  Runtimes <- MCRuntimes
  Servers <- MCServers
  Size = 2
  MaxCrashes = 1
INVARIANTS TypeOK DoneIsWhole SoloSucceeds CacheIsVerified NothingLeftBehind
PROPERTIES ImplementsPromise WheelsEnd RuntimesEndUnlessStalled
