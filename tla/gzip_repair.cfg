SPECIFICATION Spec
CONSTANTS
  Blobs   <- MCBlobs
  NoBytes = NoBytes
  Torn    = Torn
  Seen    <- MCSeen
  SizeOf  <- MCSizeOf
  Staged  <- MCStaged
  Jobs    <- MCJobs
  MaxRuns = 1
INVARIANTS
  SalvageIsProven
  NoProvenMemberIsLost
  FittedChecksumsAreFlagged
  MagicDamageIsUndone
  PartialKeepsThePrefix
  CleanMeansProven
CHECK_DEADLOCK FALSE
