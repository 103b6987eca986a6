CONSTANTS
  Outputs = {o1, o2}
  Volumes = {1, 2}
  Unset = 0
  MaxPlays = 2
  MaxVolumes = 2
SPECIFICATION Spec
INVARIANT StoppedVolumeIsApplied
CHECK_DEADLOCK FALSE
