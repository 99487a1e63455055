SPECIFICATION Spec
CONSTANTS
  Blobs   <- MCBlobs
  NoBytes = NoBytes
  Torn    = Torn
  Seen    <- MCSeen
  SizeOf  <- MCSizeOf
  Staged  <- MCStaged
  Jobs    <- MCJobs
  MaxRuns = 1
INVARIANTS
  SignatureIsRestored
  RestoreIsProven
  LostSignatureIsReported
  CutIsReported
  CarvingIsExact
CHECK_DEADLOCK FALSE
