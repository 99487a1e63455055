CONSTANTS
  Contents <- MCContents
  Parts <- MCParts
  MaxRecords = 6
  MaxCandidates = 6
  MaxSegments = 3
  MaxEntries = 5
  MaxEntryBytes = 6
  MaxTotalBytes = 9
  Jobs <- MCPreceded
  NameRank <- MCNameRank
SPECIFICATION Spec
INVARIANT DirectoryWins
