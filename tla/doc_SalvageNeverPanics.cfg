SPECIFICATION Spec
CONSTANTS
  Blobs   <- MCBlobs
  NoBytes = NoBytes
  Torn    = Torn
  Seen    <- MCSeen
  SizeOf  <- MCSizeOf
  Staged  <- MCStaged
  Jobs    <- MCJobs
  MaxRuns = 1
INVARIANT
  SalvageNeverPanics
CHECK_DEADLOCK FALSE
