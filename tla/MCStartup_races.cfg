SPECIFICATION Spec
CONSTANTS
  p1 = p1
  p2 = p2
  k1 = k1
  k2 = k2
  a = a
  b = b
  c = c
  NoKey = NoKey
  Processes <- TwoProcesses
  MasterKeys <- TwoKeys
  Credentials <- MCCredentials
  LegacyKeys <- MCLegacyKeys
  Versions = {1, 2}
  Batch = 2
  Catalogs <- MCCatalogs
  Default <- MCDefault
  Aliases <- MCAliases
  MaxCreates = 1
SYMMETRY Symmetry
INVARIANTS
  StartupTypeOK
  KeyKept
  ImportedOnce
  CatalogResolves
CHECK_DEADLOCK FALSE
