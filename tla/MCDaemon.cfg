SPECIFICATION FairSpec
CONSTANTS
  Devices = {d1, d2}
  NoDevice = NoDevice
  PlugLimit = 2
  MountPoints = {m1}
  MountLimit = 1
INVARIANTS
  DaemonTypeOK
  OneCyclePerLane
  ExitsIdle
PROPERTIES
  PluggedDeviceServed
  ShutdownCompletes
CHECK_DEADLOCK FALSE
