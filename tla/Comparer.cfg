SPECIFICATION WindowSpec
CONSTANTS
  Bytes = {0, 1}
  MaxOld = 4
  MaxNew = 4
  BlockSize = 2
  NewBlockSizes = {1, 4}
  DiskBlocks = {1, 4}
  ChecksumBase = 2
  BitmapBase = 1
INVARIANTS
  TypeOK
  CommandsRebuild
  NoMatchMissed
  RunsAreMerged
  TableDescribesNewFile
  WindowIsWhatWasRead
  SearchIsExact
  TripleSearchFindsRange
  SectionsReconstructed
PROPERTY
  ReturnsOrMissesStop
CHECK_DEADLOCK FALSE
