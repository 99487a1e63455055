SPECIFICATION Spec
CONSTANTS
  Blobs <- MCBlobs
  NoBytes = NoBytes
  Torn = Torn
  Seen <- MCSeen
  SizeOf <- MCSizeOf
  Staged <- MCStaged
  Jobs <- MCJobs
  MaxRuns = 2
CHECK_DEADLOCK FALSE
INVARIANTS
  ManifestIsBacked
  TypeOK
  PublishedIsJustified
  SuccessMeansArtifact
  BestKeptUnlessAggressive
  StopsForAReason
  StreamIsFaithful
PROPERTIES
  WritesAreEarned
  SidecarFollowsOutput
  ImplementsContract
  EveryRunReturns
