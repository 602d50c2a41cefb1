SPECIFICATION Spec

CONSTANTS
  DeviceMax = 0
  Tolerance = 25
  Files <- MCFiles
  Configs <- MCConfigs
  Plays <- MCPlays
  Stack <- MCStack

INVARIANT TwiceChangesNothing
