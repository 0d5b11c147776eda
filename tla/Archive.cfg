SPECIFICATION FairSpec
CONSTANTS
  MaxFiles = 2
  MaxObjects = 2
  FileLengths = {0, 1, 3}
  ObjectLengths = {1, 2}
  OutSize = 2
  InSize = 3
  ReadSize = 2
INVARIANTS
  TypeOK
  ReadsBackWhatWasWritten
  ArchivesAreReadable
  OnlyWholeArchives
PROPERTY
  ReadsEnd
CHECK_DEADLOCK FALSE
