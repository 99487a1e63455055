SPECIFICATION Spec
CONSTANTS
  Blobs   <- MCBlobs
  NoBytes = NoBytes
  Torn    = Torn
  Seen    <- MCSeen
  SizeOf  <- MCSizeOf
  Staged  <- MCStaged
  Jobs    <- MCJobs
  MaxRuns = 1
INVARIANTS
  DamageStaysDetectable
  RebuiltDirectoryResolves
  DirectoryDamageIsRecovered
  HelpIsLostToTheClampOnly
CHECK_DEADLOCK FALSE
