\* A file that may be longer than a seek can reach, and names for it.
CONSTANTS
  Entries <- MCEntries
  Paths <- MCPaths
  MaxPathLength = 5
  MaxOffset = 1
  MaxSize = 2
  MaxLength = 2
  Listed = 2
SPECIFICATION FileIOSpec
INVARIANTS
  PositionIsKnown
  EndIsHonest
  ListingIsWhole
  PathsAreKept
