SPECIFICATION Spec

CONSTANTS
  DeviceMax = 0
  Tolerance = 25
  Files <- MCFiles
  Configs <- MCConfigs
  Plays <- MCPlainPlays
  Stack <- MCPlainStack

INVARIANT PlaysWhatItGets
