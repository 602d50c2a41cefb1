SPECIFICATION Spec

CONSTANTS
  DeviceMax = 200
  Tolerance = 25
  Files <- MCFiles
  Configs <- MCConfigs
  Plays <- MCPlays
  Stack <- MCStack

INVARIANTS
  QualityTypeOK
  NoWorkTwice
  RecordedIsReal
  CeilingHolds

PROPERTIES
  KeepsBetterCopy
