SPECIFICATION Spec
CONSTANTS
  Level <- MCLevel
  BoundOf <- MCBoundOf
  Type <- MCType
  Number <- MCNumber
  Configs <- MCConfigs
  MaxScript = 4
INVARIANTS BoundCovers CheckedIsComplete
PROPERTIES UserConfigurationKept
CHECK_DEADLOCK FALSE
