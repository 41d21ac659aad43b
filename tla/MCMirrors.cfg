SPECIFICATION MirrorLiveSpec
CONSTANTS
  MirrorIds = {1, 2}
  Direction <- MCDirection
  MaxUpdates = 2
  MaxMirrorRestarts = 0
  MaxMirrorCmds = 2
PROPERTY
  EveryPushIsMirrored
CHECK_DEADLOCK FALSE
