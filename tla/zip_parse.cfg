CONSTANTS
  Contents <- MCContents
  Parts <- MCParts
  MaxRecords = 6
  MaxCandidates = 6
  MaxSegments = 3
  MaxEntries = 5
  MaxEntryBytes = 6
  MaxTotalBytes = 9
  Jobs <- MCJobs
  NameRank <- MCNameRank
SPECIFICATION Spec
INVARIANT
  TypeOK
  AttestedIsGenuine
  ForeignStaysOut
  IntactMembersSurvive
  PartIsNotAll
  InnerStaysInner
  ScanOnlyIsDisjoint
  EmissionIsBacked
PROPERTY
  RepointingKeepsOrder
