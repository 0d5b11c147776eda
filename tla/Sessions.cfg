SPECIFICATION Spec
CONSTANTS
  c1 = c1
  c2 = c2
  None = None
  Dir = Dir
  Live = Live
  NPaths = 2
  Guids = {g1, g2}
  Contents = {c1, c2}
  SizeOf <- MCUniformSize
  MaxVersions = 2
  Devices = {d1, d2}
  SnapshotModes <- MCBothModes
  Criteria = {"Hash"}
  Exclusions <- MCNoExclusion
  EditKinds = {"write", "create", "delete", "link", "rename", "remove"}
  MaxEdits = 2
  ConcurrentEdits = TRUE
  MaxSessionBackups = 2
SYMMETRY MCSymmetry
INVARIANTS
  TypeOK
  StreamIdsUnique
  StreamsComeFromTheirFiles
  SnapshotExact
  SnapshotHashesMatch
PROPERTY CommittedImmutable
