SPECIFICATION FairSpec
CONSTANTS
  c1 = c1
  c2 = c2
  h1 = h1
  h2 = h2
  Clients <- MCClients
  Helpers <- MCHelpers
PROPERTY IdleExit
