SPECIFICATION Spec
CONSTANTS
  Conservative = 2
  DefaultList = 4
  DefaultMax = 6
  NativeMax = 7
  InitialShort = {1}
  Configs <- MCConfigs
  Requested = {0, 3}
  Hints = {0, 4}
  Needs = {0, 6, 8}

  
  
PROPERTIES
  GrowsWithinLimit
