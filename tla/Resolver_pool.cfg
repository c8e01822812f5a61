SPECIFICATION Spec
CONSTANTS
  a = a
  b = b
  c = c
  A = A
  Names <- MCNames
  Spellings <- MCSpellings
  NormOf <- MCNormOf
  Worlds <- MCWorlds
  Manifests <- MCManifests
  Installed <- MCInstalled
  OtherPythons <- MCOtherPythons
  MaxOthers = 1
CHECK_DEADLOCK FALSE
INVARIANT StartsLoadable
